---------------------------- MODULE Spec2Model ----------------------------
(***************************************************************************)
(* Model of the invoice pipeline of invoice_mvp: the numeric-consistency   *)
(* validator, the extract-with-metrics wrapper, the metrics sink, the      *)
(* payload mapping and the orchestrator that sequences them.               *)
(*                                                                         *)
(* Money is counted in cents (0.01), quantities in whole units and the IVA *)
(* rate in hundredths (19 is 0.19).  Products are formed exactly in units  *)
(* of 0.0001 before round(.., 2) brings them back to cents.                *)
(***************************************************************************)
EXTENDS Integers, Sequences, FiniteSets, TLC

(***************************************************************************)
(* Bounds of the model.                                                    *)
(***************************************************************************)
MaxLines == 2
MaxCalls == 2
MaxRows == 2
MaxRecords == 2
MaxExtracts == 2
MaxPipelines == 2

(***************************************************************************)
(* The numbers invoices are built from.                                    *)
(***************************************************************************)
Quantities == {1, 2}
UnitPrices == {0, 3}
LineSubtotals == {0, 3, 4}
Subtotals == {0, 3, 4, 7}
IvaAmounts == {0, 1, 3}
IvaRates == {0, 19}
TotalAmounts == {0, 3, 4, 5, 8}

Abs(x) == IF x < 0 THEN 0 - x ELSE x

Min(a, b) == IF a < b THEN a ELSE b

(***************************************************************************)
(* round(x, 2) of a non-negative x given in units of 0.0001, in cents.     *)
(* A decimal tie (x.xx5) is decided in Python by the binary expansion of   *)
(* the double; no product of the numbers above is a tie.                   *)
(***************************************************************************)
round2(x) == IF x % 100 > 50 THEN (x \div 100) + 1 ELSE x \div 100

(***************************************************************************)
(* The tolerance 0.01, in cents.                                           *)
(***************************************************************************)
Tolerance == 1

(***************************************************************************)
(* abs(a - b) > 0.01 is evaluated on binary64 doubles.  Two amounts that   *)
(* differ by exactly one cent give a double that lies just below or just   *)
(* above the double 0.01: for the doubles nearest to c/100 and (c+1)/100   *)
(* the difference exceeds 0.01 exactly for the c listed here (c < 16), for *)
(* instance 0.04 - 0.03 = 0.010000000000000002.                            *)
(***************************************************************************)
FloatAboveTolerance == {3, 4, 6, 9, 12, 13, 15}

exceeds_tolerance(a, b) ==
    \/ Abs(a - b) > Tolerance
    \/ Abs(a - b) = Tolerance /\ Min(a, b) \in FloatAboveTolerance

(***************************************************************************)
(* Optional[T]: None is the empty sequence, a value x is <<x>>.            *)
(***************************************************************************)
None == <<>>

Some(x) == <<x>>

\* the truth test of Python on an Optional[str]: None and "" are false
truthy(v) == Len(v) # 0 /\ v[1] # ""

(***************************************************************************)
(* Domain models (core/models.py).                                         *)
(***************************************************************************)
Descriptions == {"Flete", "FLETE", "flete", "Fle", "Flete urgente", "Servicio"}

InvoiceLineItemWithTotals(raw, q, up, sub) ==
    [rubro_code |-> None, rubro_raw |-> raw, quantity |-> q,
     unit_price |-> up, subtotal |-> sub]

InvoiceTotals(sub, iva, rate, total) ==
    [subtotal |-> sub, iva |-> iva, iva_rate |-> rate, total |-> total]

InvoiceParty(name, rut, address) ==
    [name |-> name, rut |-> rut, address |-> address]

EmptyParty == InvoiceParty("", "", "")

Invoice(provider_, buyer, line_items, totals) ==
    [provider |-> provider_, buyer |-> buyer, line_items |-> line_items,
     totals |-> totals]

InvoiceValidationIssue(code, field) == [code |-> code, field |-> field]

InvoiceValidationResult(is_valid, issues) ==
    [is_valid |-> is_valid, issues |-> issues]

(***************************************************************************)
(* validate_invoice_numeric_consistency (services/validator.py).           *)
(***************************************************************************)
line_field(idx) == "line_items[" \o ToString(idx) \o "].subtotal"

line_expected(line) == round2(line.quantity * line.unit_price * 100)

line_issues(line_items) ==
    LET F[n \in 0..Len(line_items)] ==
            IF n = 0 THEN <<>>
            ELSE IF exceeds_tolerance(line_items[n].subtotal,
                                      line_expected(line_items[n]))
                 THEN Append(F[n - 1],
                             InvoiceValidationIssue("line_subtotal_mismatch",
                                                    line_field(n - 1)))
                 ELSE F[n - 1]
    IN  F[Len(line_items)]

lines_subtotal(line_items) ==
    LET S[n \in 0..Len(line_items)] ==
            IF n = 0 THEN 0 ELSE S[n - 1] + line_items[n].subtotal
    IN  S[Len(line_items)]

expected_iva(totals) == round2(totals.subtotal * totals.iva_rate)

expected_total(totals) == round2((totals.subtotal + totals.iva) * 100)

\* mutant: a subtotal is not held against lines that carry no subtotal
subtotal_issues_skipping_zero_lines(inv) ==
    IF /\ lines_subtotal(inv.line_items) # 0
       /\ exceeds_tolerance(inv.totals.subtotal, lines_subtotal(inv.line_items))
    THEN <<InvoiceValidationIssue("subtotal_mismatch", "totals.subtotal")>>
    ELSE <<>>

subtotal_issues(inv) ==
    IF exceeds_tolerance(inv.totals.subtotal, lines_subtotal(inv.line_items))
    THEN <<InvoiceValidationIssue("subtotal_mismatch", "totals.subtotal")>>
    ELSE <<>>

iva_issues(inv) ==
    IF exceeds_tolerance(inv.totals.iva, expected_iva(inv.totals))
    THEN <<InvoiceValidationIssue("iva_mismatch", "totals.iva")>>
    ELSE <<>>

total_issues(inv) ==
    IF exceeds_tolerance(inv.totals.total, expected_total(inv.totals))
    THEN <<InvoiceValidationIssue("total_mismatch", "totals.total")>>
    ELSE <<>>

collect_issues(inv) ==
    line_issues(inv.line_items) \o subtotal_issues(inv) \o iva_issues(inv)
        \o total_issues(inv)

\* mutant: is_valid no longer follows the issue list
validate_invoice_always_valid(inv) ==
    InvoiceValidationResult(TRUE, collect_issues(inv))

validate_invoice_numeric_consistency(inv) ==
    LET issues == collect_issues(inv)
    IN  InvoiceValidationResult(Len(issues) = 0, issues)

(***************************************************************************)
(* Raw extraction payloads.  A JSON object is a record that carries the    *)
(* set of keys it really has in "keys"; a key outside "keys" is absent and *)
(* its field holds a fixed filler.  d.get(k, default) and "k in d" read    *)
(* "keys".  A payload is a JSON object or the JSON value null.             *)
(***************************************************************************)
has(d, k) == k \in d.keys

get(d, k, default) == IF has(d, k) THEN d[k] ELSE default

PartyKeys == {"name", "rut", "address"}

PartyDict(keys, name, rut, address) ==
    [keys |-> keys,
     name |-> IF "name" \in keys THEN name ELSE "",
     rut |-> IF "rut" \in keys THEN rut ELSE "",
     address |-> IF "address" \in keys THEN address ELSE ""]

EmptyPartyDict == PartyDict({}, "", "", "")

TotalsKeys == {"subtotal", "iva", "iva_rate", "total"}

TotalsDict(keys, sub, iva, rate, total) ==
    [keys |-> keys,
     subtotal |-> IF "subtotal" \in keys THEN sub ELSE 0,
     iva |-> IF "iva" \in keys THEN iva ELSE 0,
     iva_rate |-> IF "iva_rate" \in keys THEN rate ELSE 0,
     total |-> IF "total" \in keys THEN total ELSE 0]

EmptyTotalsDict == TotalsDict({}, 0, 0, 0, 0)

LineKeys == {"rubro_raw", "quantity", "unit_price", "subtotal"}

\* a line item of a flat payload; rubro_code is a key the item may carry
CodedLineDict(keys, code, raw, q, up, sub) ==
    [keys |-> keys,
     rubro_code |-> IF "rubro_code" \in keys THEN code ELSE None,
     rubro_raw |-> IF "rubro_raw" \in keys THEN raw ELSE "",
     quantity |-> IF "quantity" \in keys THEN q ELSE 0,
     unit_price |-> IF "unit_price" \in keys THEN up ELSE 0,
     subtotal |-> IF "subtotal" \in keys THEN sub ELSE 0]

LineDict(keys, raw, q, up, sub) ==
    [keys |-> keys,
     rubro_code |-> None,
     rubro_raw |-> IF "rubro_raw" \in keys THEN raw ELSE "",
     quantity |-> IF "quantity" \in keys THEN q ELSE 0,
     unit_price |-> IF "unit_price" \in keys THEN up ELSE 0,
     subtotal |-> IF "subtotal" \in keys THEN sub ELSE 0]

SummaryDict(keys, sub, iva, total) ==
    [keys |-> keys,
     sub_total |-> IF "sub_total" \in keys THEN sub ELSE 0,
     iva_amount |-> IF "iva_amount" \in keys THEN iva ELSE 0,
     total_amount |-> IF "total_amount" \in keys THEN total ELSE 0]

EmptySummaryDict == SummaryDict({}, 0, 0, 0)

SummaryKeys == {"sub_total", "iva_amount", "total_amount"}

ItemDict(keys, description, q) ==
    [keys |-> keys,
     description |-> IF "description" \in keys THEN description ELSE "",
     quantity |-> IF "quantity" \in keys THEN q ELSE 0]

DataDict(keys, seller, buyer, items, summary) ==
    [keys |-> keys,
     seller |-> IF "seller" \in keys THEN seller ELSE EmptyPartyDict,
     buyer |-> IF "buyer" \in keys THEN buyer ELSE EmptyPartyDict,
     line_items |-> IF "line_items" \in keys THEN items ELSE <<>>,
     financial_summary |->
         IF "financial_summary" \in keys THEN summary ELSE EmptySummaryDict]

EmptyDataDict ==
    DataDict({}, EmptyPartyDict, EmptyPartyDict, <<>>, EmptySummaryDict)

FlatKeys == {"provider", "totals", "line_items"}

FlatPayload(keys, provider_, totals, items) ==
    [json |-> "object", keys |-> keys,
     provider |-> IF "provider" \in keys THEN provider_ ELSE EmptyPartyDict,
     totals |-> IF "totals" \in keys THEN totals ELSE EmptyTotalsDict,
     line_items |-> IF "line_items" \in keys THEN items ELSE <<>>,
     data |-> EmptyDataDict]

NestedPayload(keys, data) ==
    [json |-> "object", keys |-> keys, provider |-> EmptyPartyDict,
     totals |-> EmptyTotalsDict, line_items |-> <<>>,
     data |-> IF "data" \in keys THEN data ELSE EmptyDataDict]

EmptyPayload == FlatPayload({}, EmptyPartyDict, EmptyTotalsDict, <<>>)

JsonNull == [json |-> "null", keys |-> {}, provider |-> EmptyPartyDict,
             totals |-> EmptyTotalsDict, line_items |-> <<>>,
             data |-> EmptyDataDict]

(***************************************************************************)
(* InvoiceProcessor._map_to_invoice (services/orchestrator.py).  The       *)
(* result is the Invoice, or the exception the pydantic constructors (or   *)
(* the "in" test on a payload that is no mapping) raise.                   *)
(***************************************************************************)
NoInvoice == Invoice(EmptyParty, EmptyParty, <<>>, InvoiceTotals(0, 0, 0, 0))

Mapped(inv) == [ok |-> TRUE, invoice |-> inv, error |-> ""]

MappingFailed(err) == [ok |-> FALSE, invoice |-> NoInvoice, error |-> err]

party_of(d) ==
    InvoiceParty(get(d, "name", ""), get(d, "rut", ""), get(d, "address", ""))

(***************************************************************************)
(* float(x) of a JSON number.  A double, and an integer that a double      *)
(* holds exactly, comes out as the same number.  From 2**53 on doubles are *)
(* 2 apart: float() gives the nearest one, a tie going to the even         *)
(* mantissa.  An amount BigInt + k stands for the JSON integer 2**53 + k.  *)
(***************************************************************************)
BigInt == 1000000000

float(n) ==
    IF n < BigInt THEN n
    ELSE LET k == n - BigInt
         IN  IF k % 2 = 0 THEN n
             ELSE IF k % 4 = 1 THEN n - 1
             ELSE n + 1

\* an int amount of the nested shape (whole currency units), as a float amount
float_of_units(n) == n * 100

is_nested_shape(p) ==
    has(p, "data") /\ has(p.data, "seller") /\ has(p.data, "buyer")

\* InvoiceExtraction(**extraction_data): the fields without a default
InvoiceExtraction_required == {"seller", "buyer", "document_details", "financial_summary"}

\* mutant: the buyer is taken as provider and the seller as buyer
map_nested_swapping_parties(d) ==
    IF ~(InvoiceExtraction_required \subseteq d.keys)
    THEN MappingFailed("ValidationError")
    ELSE Mapped(Invoice(
             party_of(d.buyer),
             party_of(d.seller),
             [i \in 1..Len(d.line_items) |->
                 InvoiceLineItemWithTotals(
                     get(d.line_items[i], "description", ""),
                     get(d.line_items[i], "quantity", 0), 0, 0)],
             InvoiceTotals(
                 float_of_units(get(d.financial_summary, "sub_total", 0)),
                 float_of_units(get(d.financial_summary, "iva_amount", 0)),
                 0,
                 float_of_units(get(d.financial_summary, "total_amount", 0)))))

map_nested(d) ==
    IF ~(InvoiceExtraction_required \subseteq d.keys)
    THEN MappingFailed("ValidationError")
    ELSE Mapped(Invoice(
             party_of(d.seller),
             party_of(d.buyer),
             [i \in 1..Len(d.line_items) |->
                 InvoiceLineItemWithTotals(
                     get(d.line_items[i], "description", ""),
                     get(d.line_items[i], "quantity", 0), 0, 0)],
             InvoiceTotals(
                 float_of_units(get(d.financial_summary, "sub_total", 0)),
                 float_of_units(get(d.financial_summary, "iva_amount", 0)),
                 0,
                 float_of_units(get(d.financial_summary, "total_amount", 0)))))

\* the flat branch with InvoiceLineItemWithTotals(**li) and the float casts of
\* the totals
flat_line_item(li) ==
    [InvoiceLineItemWithTotals(li.rubro_raw, float(li.quantity),
                               float(li.unit_price), float(li.subtotal))
        EXCEPT !.rubro_code = get(li, "rubro_code", None)]

\* mutant: iva and iva_rate are read from each other's key
map_flat_swapping_iva(p) ==
    LET provider_data == get(p, "provider", EmptyPartyDict)
        totals_data == get(p, "totals", EmptyTotalsDict)
        line_items_data == get(p, "line_items", <<>>)
    IN  IF \E i \in 1..Len(line_items_data) :
               ~(LineKeys \subseteq line_items_data[i].keys)
        THEN MappingFailed("ValidationError")
        ELSE Mapped(Invoice(
                 party_of(provider_data),
                 EmptyParty,
                 [i \in 1..Len(line_items_data) |->
                     flat_line_item(line_items_data[i])],
                 InvoiceTotals(
                     float(get(totals_data, "subtotal", 0)),
                     float(get(totals_data, "iva_rate", 0)),
                     float(get(totals_data, "iva", 0)),
                     float(get(totals_data, "total", 0)))))

\* mutant: a line item without rubro_raw gets the empty description
map_flat_defaulting_rubro_raw(p) ==
    LET provider_data == get(p, "provider", EmptyPartyDict)
        totals_data == get(p, "totals", EmptyTotalsDict)
        line_items_data == get(p, "line_items", <<>>)
    IN  IF \E i \in 1..Len(line_items_data) :
               ~((LineKeys \ {"rubro_raw"}) \subseteq line_items_data[i].keys)
        THEN MappingFailed("ValidationError")
        ELSE Mapped(Invoice(
                 party_of(provider_data),
                 EmptyParty,
                 [i \in 1..Len(line_items_data) |->
                     flat_line_item(line_items_data[i])],
                 InvoiceTotals(
                     float(get(totals_data, "subtotal", 0)),
                     float(get(totals_data, "iva", 0)),
                     float(get(totals_data, "iva_rate", 0)),
                     float(get(totals_data, "total", 0)))))

map_flat(p) ==
    LET provider_data == get(p, "provider", EmptyPartyDict)
        totals_data == get(p, "totals", EmptyTotalsDict)
        line_items_data == get(p, "line_items", <<>>)
    IN  IF \E i \in 1..Len(line_items_data) :
               ~(LineKeys \subseteq line_items_data[i].keys)
        THEN MappingFailed("ValidationError")
        ELSE Mapped(Invoice(
                 party_of(provider_data),
                 EmptyParty,
                 [i \in 1..Len(line_items_data) |->
                     flat_line_item(line_items_data[i])],
                 InvoiceTotals(
                     float(get(totals_data, "subtotal", 0)),
                     float(get(totals_data, "iva", 0)),
                     float(get(totals_data, "iva_rate", 0)),
                     float(get(totals_data, "total", 0)))))

map_to_invoice(p) ==
    IF p.json = "null" THEN MappingFailed("TypeError")
    ELSE IF is_nested_shape(p) THEN map_nested(p.data)
    ELSE map_flat(p)

(***************************************************************************)
(* RubroNomenclator and RubroNormalizerService                             *)
(* (services/rubro_normalizer.py).                                         *)
(***************************************************************************)
\* str.lower() on the strings of the model
lower(s) ==
    CASE s = "Flete" -> "flete"
      [] s = "FLETE" -> "flete"
      [] s = "Fle" -> "fle"
      [] s = "Flete urgente" -> "flete urgente"
      [] s = "Servicio" -> "servicio"
      [] s = "Servicio de consultoría" -> "servicio de consultoría"
      [] OTHER -> s

RubroNomenclatorEntry(code, name) == [code |-> code, name |-> name]

\* RubroNomenclator.from_csv: rows without a code or a name are skipped;
\* by_name is keyed by the lowercased name, a later row replacing an earlier
\* one under the same key
from_csv(rows) ==
    LET kept == {i \in 1..Len(rows) : rows[i].code # "" /\ rows[i].name # ""}
        last(n) == CHOOSE i \in kept :
                       /\ lower(rows[i].name) = n
                       /\ \A j \in kept : lower(rows[j].name) = n => j <= i
    IN  [n \in {lower(rows[i].name) : i \in kept} |->
            RubroNomenclatorEntry(rows[last(n)].code, rows[last(n)].name)]

\* the table of the pipeline's nomenclator, loaded from the row (R1, Flete)
by_name == from_csv(<<[code |-> "R1", name |-> "Flete"]>>)

\* mutant: the lookup compares the description as written
normalize_case_sensitive(nomenclator, rubro_raw) ==
    IF rubro_raw \in DOMAIN nomenclator
    THEN Some(nomenclator[rubro_raw])
    ELSE None

normalize(nomenclator, rubro_raw) ==
    IF lower(rubro_raw) \in DOMAIN nomenclator
    THEN Some(nomenclator[lower(rubro_raw)])
    ELSE None

RubroNormalizationResult(idx, raw, entry) ==
    [line_index |-> idx, original_rubro |-> raw,
     normalized_code |-> IF entry # None THEN Some(entry[1].code) ELSE None,
     normalized_name |-> IF entry # None THEN Some(entry[1].name) ELSE None]

\* the normalizer configurations of the pipeline: no service, a service
\* without a nomenclator, or a service with the table above
Normalizers == {"none", "no_nomenclator", "nomenclator"}

\* self._nomenclator of the pipeline's service: None or the table
nomenclator_of(normalizer_) ==
    IF normalizer_ = "nomenclator" THEN Some(by_name) ELSE None

\* mutant: line_index counts from 1
normalize_lines_one_based(nomenclator, rubros_) ==
    [k \in 1..Len(rubros_) |->
        RubroNormalizationResult(
            k, rubros_[k],
            IF Len(nomenclator) # 0 THEN normalize(nomenclator[1], rubros_[k])
            ELSE None)]

normalize_lines(nomenclator, rubros_) ==
    [k \in 1..Len(rubros_) |->
        RubroNormalizationResult(
            k - 1, rubros_[k],
            IF Len(nomenclator) # 0 THEN normalize(nomenclator[1], rubros_[k])
            ELSE None)]

\* mutant: every line gets the code of its result, also when there is none
normalization_stage_overwriting(normalizer_, inv) ==
    IF normalizer_ = "none" THEN inv
    ELSE LET results ==
                 normalize_lines(nomenclator_of(normalizer_),
                     [k \in 1..Len(inv.line_items) |-> inv.line_items[k].rubro_raw])
         IN  [inv EXCEPT !.line_items =
                 [k \in 1..Len(inv.line_items) |->
                     [inv.line_items[k] EXCEPT !.rubro_code =
                          results[k].normalized_code]]]

\* step 4 of process_invoice_file: for every result with a code, the line at
\* its line_index gets that code
normalization_stage(normalizer_, inv) ==
    IF normalizer_ = "none" THEN inv
    ELSE LET results ==
                 normalize_lines(nomenclator_of(normalizer_),
                     [k \in 1..Len(inv.line_items) |-> inv.line_items[k].rubro_raw])
             coded(k) == {j \in 1..Len(results) :
                             /\ results[j].line_index = k - 1
                             /\ results[j].normalized_code # None}
         IN  [inv EXCEPT !.line_items =
                 [k \in 1..Len(inv.line_items) |->
                     IF coded(k) # {}
                     THEN [inv.line_items[k] EXCEPT !.rubro_code =
                              results[CHOOSE j \in coded(k) :
                                  \A i \in coded(k) : i <= j].normalized_code]
                     ELSE inv.line_items[k]]]

(***************************************************************************)
(* The payloads the extractors can hand back.                              *)
(***************************************************************************)
MockPayload ==
    FlatPayload(FlatKeys,
        PartyDict(PartyKeys, "Proveedor Demo", "12.345.678-9", "Calle Demo 123"),
        TotalsDict(TotalsKeys, 100000, 19000, 19, 119000),
        <<LineDict(LineKeys, "Servicio de consultoría", 10, 10000, 100000)>>)

ProviderDicts ==
    {PartyDict(PartyKeys, "Acme", "1-9", ""),
     PartyDict({"name"}, "Mock Provider", "", "")}

TotalsDicts ==
    {TotalsDict(TotalsKeys, 3, 1, 19, 4),
     TotalsDict(TotalsKeys, 3, 1, 19, 8),
     TotalsDict(TotalsKeys, 3, 1, 19, BigInt + 1),
     TotalsDict({"subtotal"}, 3, 0, 0, 0)}

LineDicts ==
    {LineDict(LineKeys, "Flete", 1, 3, 3),
     LineDict(LineKeys, "FLETE", 1, 3, 4),
     LineDict(LineKeys \ {"rubro_raw"}, "", 1, 3, 3),
     CodedLineDict(LineKeys \cup {"rubro_code"}, Some("X9"), "Servicio", 1, 3, 3)}

SeqsUpTo(S, n) == UNION {[1..k -> S] : k \in 0..n}

FlatPayloads ==
    {FlatPayload(K, pr, t, l) :
        K \in SUBSET FlatKeys, pr \in ProviderDicts, t \in TotalsDicts,
        l \in SeqsUpTo(LineDicts, MaxLines)}

SummaryDicts ==
    {SummaryDict(SummaryKeys, 3, 1, 4), SummaryDict(SummaryKeys, 0, 0, 0),
     SummaryDict(SummaryKeys, 3, 0, 3), SummaryDict(SummaryKeys, 0, 1, 1),
     SummaryDict(SummaryKeys, 0, 0, 4)}

ItemSeqs == {<<>>, <<ItemDict({"description", "quantity"}, "Flete", 2)>>}

DataKeys == {"seller", "buyer", "document_details", "line_items", "financial_summary"}

DataDicts ==
    {DataDict(dk, PartyDict(PartyKeys, "Acme", "1-9", ""),
              PartyDict({"name"}, "Cliente", "", ""), items, summary) :
        dk \in SUBSET DataKeys, items \in ItemSeqs, summary \in SummaryDicts}

NestedPayloads ==
    {NestedPayload(K, d) :
        K \in {{"data"}, {"data", "extraction_metadata"}}, d \in DataDicts}

RawPayloads == NestedPayloads \cup FlatPayloads \cup {MockPayload, JsonNull}

(***************************************************************************)
(* The extractors (services/extractors, tests/mocks.py).  extract yields   *)
(* a result or raises; what comes back from upstream is an input.          *)
(***************************************************************************)
Extractors == {"mock", "ocr", "openai", "llama"}

get_provider_name(extractor_) ==
    CASE extractor_ = "mock" -> "mock"
      [] extractor_ = "ocr" -> "tesseract_ocr"
      [] extractor_ = "openai" -> "openai"
      [] extractor_ = "llama" -> "llama_cloud"

Returned(result) == [ok |-> TRUE, result |-> result, error |-> ""]

Raised(err) == [ok |-> FALSE, result |-> EmptyPayload, error |-> err]

\* OCRInvoiceExtractor.extract always fills provider, totals and every line,
\* with subtotal = quantity * price; the totals are floats
OcrPayloads ==
    {p \in FlatPayloads :
        /\ p.keys = FlatKeys
        /\ p.provider.keys = PartyKeys
        /\ p.totals.keys = TotalsKeys
        /\ p.totals.total = float(p.totals.total)
        /\ \A i \in 1..Len(p.line_items) :
              /\ p.line_items[i].keys = LineKeys
              /\ p.line_items[i].subtotal =
                     p.line_items[i].quantity * p.line_items[i].unit_price}

\* OpenAIInvoiceExtractor.extract normalizes provider and totals (cast to
\* float); the line items are passed through as the model wrote them
OpenAIPayloads ==
    {p \in FlatPayloads :
        /\ p.keys = FlatKeys
        /\ p.provider.keys = PartyKeys
        /\ p.totals.keys = TotalsKeys
        /\ p.totals.total = float(p.totals.total)}

\* mutant: the chat extractor looks at its text only after the API call
extract_calling_first(extractor_, text) ==
    CASE extractor_ = "mock" -> {Returned(MockPayload)}
      [] extractor_ = "ocr" ->
            IF ~truthy(text) THEN {Raised("OCR extractor requires OCR text")}
            ELSE {Returned(p) : p \in OcrPayloads}
      [] extractor_ = "openai" ->
            (IF ~truthy(text) THEN {Raised("OpenAI extractor requires OCR text")}
             ELSE {Returned(p) : p \in OpenAIPayloads})
                     \cup {Raised("OpenAI API call failed")}
      [] extractor_ = "llama" ->
            {Returned(p) : p \in RawPayloads}
                \cup {Raised("Extraction job failed")}

\* the outcomes of extract(file_bytes, filename, ocr_text); ocr_text is an
\* Optional[str] and "if not ocr_text" is the first statement of the OCR and
\* the chat extractor
extract(extractor_, text) ==
    CASE extractor_ = "mock" -> {Returned(MockPayload)}
      [] extractor_ = "ocr" ->
            IF ~truthy(text) THEN {Raised("OCR extractor requires OCR text")}
            ELSE {Returned(p) : p \in OcrPayloads}
      [] extractor_ = "openai" ->
            IF ~truthy(text) THEN {Raised("OpenAI extractor requires OCR text")}
            ELSE {Returned(p) : p \in OpenAIPayloads}
                     \cup {Raised("OpenAI API call failed")}
      [] extractor_ = "llama" ->
            {Returned(p) : p \in RawPayloads}
                \cup {Raised("Extraction job failed")}

(***************************************************************************)
(* _extract_confidence of each extractor: the "overall" score, to the      *)
(* nearest hundredth, or None.                                             *)
(***************************************************************************)
Confidence(c) == [raised |-> FALSE, value |-> c, error |-> ""]

ConfidenceRaised(err) == [raised |-> TRUE, value |-> None, error |-> err]

cap(c) == IF c > 100 THEN 100 ELSE c

extract_confidence(extractor_, result) ==
    CASE extractor_ = "mock" -> Confidence(Some(100))
      [] extractor_ = "llama" ->
            IF result.json = "null"
            THEN ConfidenceRaised("argument of type 'NoneType' is not iterable")
            ELSE IF has(result, "extraction_metadata") THEN Confidence(Some(85))
            ELSE Confidence(None)
      [] extractor_ = "ocr" ->
            Confidence(Some(cap(
                50 + (IF result.provider.name # "" THEN 10 ELSE 0)
                   + (IF result.provider.rut # "" THEN 10 ELSE 0)
                   + (IF result.totals.total > 0 THEN 20 ELSE 0)
                   + (IF result.line_items # <<>> THEN 10 ELSE 0))))
      [] extractor_ = "openai" ->
            Confidence(Some(cap(
                70 + (IF result.provider.name # "" /\ result.provider.rut # ""
                      THEN 10 ELSE 0)
                   + (IF result.totals.total # 0 /\ result.totals.subtotal # 0
                      THEN 10 ELSE 0)
                   + (IF result.line_items # <<>> THEN 10 ELSE 0))))

(***************************************************************************)
(* InvoiceExtractor.extract_with_metrics (services/extractors/base.py).    *)
(* processing_time is wall-clock time and is left out of the record.       *)
(***************************************************************************)
ExtractionMetrics(provider_, success, confidence, error_message) ==
    [provider |-> provider_, success |-> success, confidence |-> confidence,
     error_message |-> error_message]

NoMetrics == ExtractionMetrics("", FALSE, None, None)

\* a call of extract_with_metrics that has not come back
NoReturn == [raised |-> FALSE, result |-> EmptyPayload, metrics |-> NoMetrics,
             error |-> ""]

failure_metrics(extractor_, err) ==
    ExtractionMetrics(get_provider_name(extractor_), FALSE, None, Some(err))

\* what the except branch leaves behind: the metrics object it built and
\* the exception it re-raises
reraise(extractor_, err) ==
    [raised |-> TRUE, result |-> EmptyPayload,
     metrics |-> failure_metrics(extractor_, err), error |-> err]

\* mutant: the except branch returns its metrics instead of re-raising
extract_with_metrics_swallowing(extractor_, outcome) ==
    IF outcome.ok
    THEN [raised |-> FALSE, result |-> outcome.result,
          metrics |-> ExtractionMetrics(get_provider_name(extractor_), TRUE,
                                        None, None),
          error |-> ""]
    ELSE [raised |-> FALSE, result |-> EmptyPayload,
          metrics |-> failure_metrics(extractor_, outcome.error), error |-> ""]

extract_with_metrics(extractor_, outcome) ==
    IF outcome.ok
    THEN LET confidence == extract_confidence(extractor_, outcome.result)
         IN  IF confidence.raised
             THEN reraise(extractor_, confidence.error)
             ELSE [raised |-> FALSE, result |-> outcome.result,
                   metrics |-> ExtractionMetrics(get_provider_name(extractor_),
                                                 TRUE, confidence.value, None),
                   error |-> ""]
    ELSE reraise(extractor_, outcome.error)

(***************************************************************************)
(* ExtractionMetricsCollector.record_extraction (services/metrics.py).     *)
(* The timestamp is left out of the record.                                *)
(***************************************************************************)
\* mutant: the new record takes the place of the last one
record_extraction_overwriting(sink, m, name) ==
    Append(SubSeq(sink, 1, Len(sink) - 1),
                 [filename |-> name, provider |-> m.provider,
                  success |-> m.success, confidence |-> m.confidence,
                  error_message |-> m.error_message])

record_extraction(sink, m, name) ==
    Append(sink, [filename |-> name, provider |-> m.provider,
                  success |-> m.success, confidence |-> m.confidence,
                  error_message |-> m.error_message])

\* seq[start:] of Python
slice_from(seq, start) ==
    LET n == Len(seq)
        first == IF start < 0
                 THEN (IF n + start > 0 THEN n + start ELSE 0)
                 ELSE (IF start < n THEN start ELSE n)
    IN  SubSeq(seq, first + 1, n)

\* self.metrics[-limit:] if self.metrics else []
get_recent_extractions(sink, limit) ==
    IF sink # <<>> THEN slice_from(sink, 0 - limit) ELSE <<>>

(***************************************************************************)
(* SmartExtractorFactory (services/smart_extractor.py).  The environment   *)
(* gives each variable as unset (None), set to the empty string or set to  *)
(* a key; os.getenv(..) is tested for truth, so only a non-empty value     *)
(* counts.  The outcome of a construction names the class that was called, *)
(* and the extractor or the exception that came out of it.                 *)
(***************************************************************************)
EnvValues == {None, Some(""), Some("key")}

Environments == [LLAMA_API_KEY : EnvValues, OPENAI_API_KEY : EnvValues]

getenv(env, name) == env[name]

NotCreated == [raised |-> FALSE, class |-> "", extractor |-> "",
               exception |-> "", error |-> ""]

Created(class) == [raised |-> FALSE, class |-> class, extractor |-> class,
                   exception |-> "", error |-> ""]

CreateFailed(class, exception, err) ==
    [raised |-> TRUE, class |-> class, extractor |-> "",
     exception |-> exception, error |-> err]

\* __init__ of each extractor class
construct(class, env) ==
    CASE class = "llama" ->
            IF ~truthy(getenv(env, "LLAMA_API_KEY"))
            THEN CreateFailed("llama", "RuntimeError",
                              "LLAMA_API_KEY environment variable is not set")
            ELSE Created("llama")
      [] class = "openai" ->
            IF ~truthy(getenv(env, "OPENAI_API_KEY"))
            THEN CreateFailed("openai", "RuntimeError",
                              "OPENAI_API_KEY environment variable is not set")
            ELSE Created("openai")
      [] class = "ocr" -> Created("ocr")
      [] class = "mock" -> Created("mock")

\* the table of _create_specific: name to class
providers == [llama |-> "llama", openai |-> "openai", ocr |-> "ocr",
              mock |-> "mock"]

\* mutant: an unknown name gets the OCR extractor
create_specific_lenient(name, env) ==
    IF name \notin DOMAIN providers
    THEN construct("ocr", env)
    ELSE construct(providers[name], env)

create_specific(name, env) ==
    IF name \notin DOMAIN providers
    THEN CreateFailed("", "ValueError",
             "Unknown provider: " \o name
                 \o ". Available: ['llama', 'openai', 'ocr', 'mock']")
    ELSE construct(providers[name], env)

\* mutant: the chat credential is looked at first
auto_detect_chat_first(env) ==
    IF truthy(getenv(env, "OPENAI_API_KEY")) THEN construct("openai", env)
    ELSE IF truthy(getenv(env, "LLAMA_API_KEY")) THEN construct("llama", env)
    ELSE construct("ocr", env)

auto_detect_provider(env) ==
    IF truthy(getenv(env, "LLAMA_API_KEY")) THEN construct("llama", env)
    ELSE IF truthy(getenv(env, "OPENAI_API_KEY")) THEN construct("openai", env)
    ELSE construct("ocr", env)

\* create_extractor(provider, auto_detect): provider is None or a string
create_extractor(provider_arg, auto, env) ==
    IF truthy(provider_arg) THEN create_specific(provider_arg[1], env)
    ELSE IF auto THEN auto_detect_provider(env)
    ELSE create_specific("llama", env)

\* mutant: mock is left out of the list
get_available_providers_without_mock(env) ==
    (IF truthy(getenv(env, "LLAMA_API_KEY")) THEN <<"llama">> ELSE <<>>)
        \o (IF truthy(getenv(env, "OPENAI_API_KEY")) THEN <<"openai">> ELSE <<>>)
        \o <<"ocr">>

get_available_providers(env) ==
    (IF truthy(getenv(env, "LLAMA_API_KEY")) THEN <<"llama">> ELSE <<>>)
        \o (IF truthy(getenv(env, "OPENAI_API_KEY")) THEN <<"openai">> ELSE <<>>)
        \o <<"ocr", "mock">>

\* the priority list of get_recommended_provider
priority == <<"llama", "openai", "ocr", "mock">>

\* mutant: the list is walked from its end
get_recommended_provider_lowest(env) ==
    LET available_list == get_available_providers(env)
        hits == {i \in 1..Len(priority) :
                    \E j \in 1..Len(available_list) :
                        available_list[j] = priority[i]}
    IN  IF hits = {} THEN "ocr"
        ELSE priority[CHOOSE i \in hits : \A k \in hits : i >= k]

\* the first name of the priority list that is in the list of available
\* providers, "ocr" when there is none
get_recommended_provider(env) ==
    LET available_list == get_available_providers(env)
        hits == {i \in 1..Len(priority) :
                    \E j \in 1..Len(available_list) :
                        available_list[j] = priority[i]}
    IN  IF hits = {} THEN "ocr"
        ELSE priority[CHOOSE i \in hits : \A k \in hits : i <= k]

(***************************************************************************)
(* SmartInvoiceExtractor.extract_with_fallback                             *)
(* (services/smart_extractor.py): what it raises when both attempts        *)
(* failed.  The metrics object it builds is only used for the message.     *)
(***************************************************************************)
aggregate_metrics(e, fallback_error) ==
    ExtractionMetrics("smart_extractor", FALSE, None,
                      Some("Primary: " \o e \o ". Fallback: " \o fallback_error))

\* mutant: only the fallback's failure is reported
all_extractors_failed_fallback_only(e, fallback_error) ==
    [raised |-> TRUE, result |-> EmptyPayload,
     metrics |-> aggregate_metrics(e, fallback_error),
     error |-> "All extractors failed: " \o fallback_error]

all_extractors_failed(e, fallback_error) ==
    [raised |-> TRUE, result |-> EmptyPayload,
     metrics |-> aggregate_metrics(e, fallback_error),
     error |-> "All extractors failed: "
                   \o aggregate_metrics(e, fallback_error).error_message[1]]

(***************************************************************************)
(* The body of the result request of the cloud extractor                   *)
(* (services/extractors/llama_extractor.py): a JSON object or a JSON       *)
(* array of objects, the objects told apart by a name.                     *)
(***************************************************************************)
JsonObject(name) == [json |-> "object", name |-> name, elements |-> <<>>]

JsonArray(elements) == [json |-> "array", name |-> "", elements |-> elements]

NoBody == [json |-> "", name |-> "", elements |-> <<>>]

ResultBodies ==
    {JsonObject("r1"), JsonArray(<<>>), JsonArray(<<"r1">>),
     JsonArray(<<"r1", "r2">>)}

\* mutant: the first element of any non-empty list is returned
unwrap_first(body) ==
    IF body.json = "array" /\ Len(body.elements) >= 1
    THEN JsonObject(body.elements[1])
    ELSE body

\* if isinstance(result, list) and len(result) == 1: result = result[0]
unwrap(body) ==
    IF body.json = "array" /\ Len(body.elements) = 1
    THEN JsonObject(body.elements[1])
    ELSE body

(***************************************************************************)
(* State.  An InvoiceProcessor is built with an extractor and an optional  *)
(* normalizer; process_invoice_file is called on it up to MaxCalls times.  *)
(* pc is the position inside the call; metrics is the list held by the     *)
(* module-level metrics_collector.  extract_outcome and built_metrics      *)
(* remember what the wrapped extract did and which ExtractionMetrics       *)
(* object extract_with_metrics built, trace the stages the call has run,   *)
(* metrics_before the list as it was when the call began.                  *)
(***************************************************************************)
VARIABLES pc, extractor, normalizer, filename, ocr_text, extract_outcome,
          built_metrics, llm_result, extraction_metrics, metrics, invoice,
          validation, error, trace, calls, metrics_before

(***************************************************************************)
(* State of the components that are used on their own: the normalizer      *)
(* service (the rows its table was loaded from, whether it has a table,    *)
(* the descriptions passed in and the results), the extractor factory (the *)
(* environment, the arguments, what create_extractor gave back and the     *)
(* list of available providers), the fallback wrapper (its primary, the    *)
(* text passed in, the attempts made and what it gave back) and the        *)
(* polling loop of the cloud extractor.                                    *)
(***************************************************************************)
VARIABLES csv_rows, with_nomenclator, rubros, results,
          environ, provider, auto_detect, created, available, recommended,
          primary, smart_ocr_text, attempts, primary_outcome,
          fallback_outcome, smart_return,
          waited, polls, job_status, poll_outcome, result_fetches,
          job_result, poll_return

(***************************************************************************)
(* The metrics sink read back (recorded lists the arguments of the         *)
(* record_extraction calls, recent_limit and recent the last call of       *)
(* get_recent_extractions), several pipelines running in one event loop    *)
(* (each with its position and its own locals, finished listing the order  *)
(* in which their extractions came back), and the provisioning of the      *)
(* extraction agent (the calls of _ensure_agent in flight, the id cached   *)
(* on each extractor, the agents the service holds under the name          *)
(* invoice_parser and the requests sent to it).                            *)
(***************************************************************************)
VARIABLES recorded, recent_limit, recent,
          pipelines, finished,
          ensure_calls, agent_id, agents, list_requests, create_requests

pipeline_vars == <<extractor, normalizer, filename, ocr_text, extract_outcome,
                   built_metrics, llm_result, extraction_metrics, metrics,
                   invoice, validation, error, trace, calls, metrics_before>>

normalizer_vars == <<csv_rows, with_nomenclator, rubros, results>>

factory_vars == <<environ, provider, auto_detect, created, available,
                  recommended>>

smart_vars == <<primary, smart_ocr_text, attempts, primary_outcome,
                fallback_outcome, smart_return>>

polling_vars == <<waited, polls, job_status, poll_outcome, result_fetches,
                  job_result, poll_return>>

sink_vars == <<recorded, recent_limit, recent>>

concurrent_vars == <<pipelines, finished>>

agent_vars == <<ensure_calls, agent_id, agents, list_requests, create_requests>>

\* the locals and the configuration of the single pipeline, without the sink
pipeline_but_sink == <<extractor, normalizer, filename, ocr_text,
                       extract_outcome, built_metrics, llm_result,
                       extraction_metrics, invoice, validation, error, trace,
                       calls, metrics_before>>

outside_pipeline == <<normalizer_vars, factory_vars, smart_vars, polling_vars,
                      sink_vars, concurrent_vars, agent_vars>>

outside_normalizer == <<pipeline_vars, factory_vars, smart_vars, polling_vars,
                        sink_vars, concurrent_vars, agent_vars>>

outside_factory == <<pipeline_vars, normalizer_vars, smart_vars, polling_vars,
                     sink_vars, concurrent_vars, agent_vars>>

outside_smart == <<pipeline_vars, normalizer_vars, factory_vars, polling_vars,
                   sink_vars, concurrent_vars, agent_vars>>

outside_polling == <<pipeline_vars, normalizer_vars, factory_vars, smart_vars,
                     sink_vars, concurrent_vars, agent_vars>>

vars == <<pc, pipeline_vars, outside_pipeline>>

Filenames == {"a.pdf", "b.jpg"}

OcrTexts == {"", "FACTURA"}

\* the ocr_text argument of extract_with_fallback: Optional[str] = None
OptionalTexts == {None} \cup {Some(t) : t \in OcrTexts}

NoValidation == InvoiceValidationResult(FALSE, <<>>)

CallLocalsCleared ==
    /\ ocr_text = ""
    /\ extract_outcome = Raised("")
    /\ built_metrics = NoMetrics
    /\ llm_result = EmptyPayload
    /\ extraction_metrics = NoMetrics
    /\ invoice = NoInvoice
    /\ validation = NoValidation
    /\ error = ""
    /\ trace = <<>>

\* the components outside the pipeline, not in use
NormalizerIdle ==
    /\ csv_rows = <<>>
    /\ with_nomenclator = FALSE
    /\ rubros = <<>>
    /\ results = <<>>

FactoryIdle ==
    /\ environ = [LLAMA_API_KEY |-> None, OPENAI_API_KEY |-> None]
    /\ provider = None
    /\ auto_detect = TRUE
    /\ created = NotCreated
    /\ available = <<>>
    /\ recommended = ""

SmartIdle ==
    /\ primary = "mock"
    /\ smart_ocr_text = None
    /\ attempts = <<>>
    /\ primary_outcome = NoReturn
    /\ fallback_outcome = NoReturn
    /\ smart_return = NoReturn

PollingIdle ==
    /\ waited = 0
    /\ polls = 0
    /\ job_status = ""
    /\ poll_outcome = ""
    /\ result_fetches = 0
    /\ job_result = NoBody
    /\ poll_return = NoBody

SinkIdle ==
    /\ recorded = <<>>
    /\ recent_limit = 0
    /\ recent = <<>>

ConcurrentIdle ==
    /\ pipelines = <<>>
    /\ finished = <<>>

AgentIdle ==
    /\ ensure_calls = <<>>
    /\ agent_id = <<>>
    /\ agents = <<>>
    /\ list_requests = 0
    /\ create_requests = 0

Init ==
    /\ pc = "idle"
    /\ extractor \in Extractors
    /\ normalizer \in Normalizers
    /\ filename = ""
    /\ metrics = <<>>
    /\ calls = 0
    /\ metrics_before = <<>>
    /\ CallLocalsCleared
    /\ NormalizerIdle
    /\ FactoryIdle
    /\ SmartIdle
    /\ PollingIdle
    /\ SinkIdle
    /\ ConcurrentIdle
    /\ AgentIdle

\* process_invoice_file(file_bytes, filename) is called
Call ==
    /\ pc \in {"idle", "returned", "raised"}
    /\ calls < MaxCalls
    /\ calls' = calls + 1
    /\ metrics_before' = metrics
    /\ filename' \in Filenames
    /\ pc' = "ocr"
    /\ ocr_text' = ""
    /\ extract_outcome' = Raised("")
    /\ built_metrics' = NoMetrics
    /\ llm_result' = EmptyPayload
    /\ extraction_metrics' = NoMetrics
    /\ invoice' = NoInvoice
    /\ validation' = NoValidation
    /\ error' = ""
    /\ trace' = <<>>
    /\ UNCHANGED <<extractor, normalizer, metrics>>
    /\ UNCHANGED outside_pipeline

\* step 1: await self._ocr.extract_text(...) returns the text
OcrReturns ==
    /\ pc = "ocr"
    /\ ocr_text' \in OcrTexts
    /\ trace' = Append(trace, "ocr")
    /\ pc' = "extract"
    /\ UNCHANGED <<extractor, normalizer, filename, extract_outcome,
                   built_metrics, llm_result, extraction_metrics, metrics,
                   invoice, validation, error, calls, metrics_before>>
    /\ UNCHANGED outside_pipeline

\* mutant: a failed OCR is papered over with an empty text
OcrRaises_falling_back ==
    /\ pc = "ocr"
    /\ trace' = Append(trace, "ocr")
    /\ error' = "OCR failed"
    /\ ocr_text' = ""
    /\ pc' = "extract"
    /\ UNCHANGED <<extractor, normalizer, filename, extract_outcome,
                   built_metrics, llm_result, extraction_metrics, metrics,
                   invoice, validation, calls, metrics_before>>
    /\ UNCHANGED outside_pipeline

\* step 1: extract_text raises; the exception leaves process_invoice_file
OcrRaises ==
    /\ pc = "ocr"
    /\ trace' = Append(trace, "ocr")
    /\ error' = "OCR failed"
    /\ pc' = "raised"
    /\ UNCHANGED <<extractor, normalizer, filename, ocr_text, extract_outcome,
                   built_metrics, llm_result, extraction_metrics, metrics,
                   invoice, validation, calls, metrics_before>>
    /\ UNCHANGED outside_pipeline

\* step 2: await self._smart_extractor.extract_with_metrics(...)
Extract ==
    /\ pc = "extract"
    /\ \E outcome \in extract(extractor, Some(ocr_text)) :
          LET r == extract_with_metrics(extractor, outcome)
          IN  /\ extract_outcome' = outcome
              /\ built_metrics' = r.metrics
              /\ IF r.raised
                 THEN /\ error' = r.error
                      /\ pc' = "raised"
                      /\ UNCHANGED <<llm_result, extraction_metrics>>
                 ELSE /\ llm_result' = r.result
                      /\ extraction_metrics' = r.metrics
                      /\ pc' = "record"
                      /\ UNCHANGED error
    /\ trace' = Append(trace, "extract")
    /\ UNCHANGED <<extractor, normalizer, filename, ocr_text, metrics, invoice,
                   validation, calls, metrics_before>>
    /\ UNCHANGED outside_pipeline

\* metrics_collector.record_extraction(extraction_metrics, filename)
Record ==
    /\ pc = "record"
    /\ metrics' = record_extraction(metrics, extraction_metrics, filename)
    /\ trace' = Append(trace, "record")
    /\ pc' = "map"
    /\ UNCHANGED <<extractor, normalizer, filename, ocr_text, extract_outcome,
                   built_metrics, llm_result, extraction_metrics, invoice,
                   validation, error, calls, metrics_before>>
    /\ UNCHANGED outside_pipeline

\* step 3: invoice = self._map_to_invoice(llm_result)
Map ==
    /\ pc = "map"
    /\ LET m == map_to_invoice(llm_result)
       IN  IF m.ok
           THEN /\ invoice' = m.invoice
                /\ pc' = "normalize"
                /\ UNCHANGED error
           ELSE /\ error' = m.error
                /\ pc' = "raised"
                /\ UNCHANGED invoice
    /\ trace' = Append(trace, "map")
    /\ UNCHANGED <<extractor, normalizer, filename, ocr_text, extract_outcome,
                   built_metrics, llm_result, extraction_metrics, metrics,
                   validation, calls, metrics_before>>
    /\ UNCHANGED outside_pipeline

\* step 4: optional rubro normalization
Normalize ==
    /\ pc = "normalize"
    /\ invoice' = normalization_stage(normalizer, invoice)
    /\ trace' = Append(trace, "normalize")
    /\ pc' = "validate"
    /\ UNCHANGED <<extractor, normalizer, filename, ocr_text, extract_outcome,
                   built_metrics, llm_result, extraction_metrics, metrics,
                   validation, error, calls, metrics_before>>
    /\ UNCHANGED outside_pipeline

\* step 5: validation, and return ProcessedInvoice(invoice, validation)
Validate ==
    /\ pc = "validate"
    /\ validation' = validate_invoice_numeric_consistency(invoice)
    /\ trace' = Append(trace, "validate")
    /\ pc' = "returned"
    /\ UNCHANGED <<extractor, normalizer, filename, ocr_text, extract_outcome,
                   built_metrics, llm_result, extraction_metrics, metrics,
                   invoice, error, calls, metrics_before>>
    /\ UNCHANGED outside_pipeline

Next ==
    \/ Call
    \/ OcrReturns
    \/ OcrRaises
    \/ Extract
    \/ Record
    \/ Map
    \/ Normalize
    \/ Validate

Spec == Init /\ [][Next]_vars

(***************************************************************************)
(* The validator as a pure function: validate_invoice_numeric_consistency  *)
(* applied to every invoice built from the numbers at the top, and to the  *)
(* two invoices of the test scenario.                                      *)
(***************************************************************************)
Lines ==
    {InvoiceLineItemWithTotals("Flete", q, up, sub) :
        q \in Quantities, up \in UnitPrices, sub \in LineSubtotals}

ScenarioInvoices ==
    {Invoice(InvoiceParty("Acme", "1-9", ""), EmptyParty,
             <<InvoiceLineItemWithTotals("Consulting", 10, 10000, 100000)>>,
             InvoiceTotals(100000, 19000, 19, total)) :
        total \in {119000, 120000}}

Invoices ==
    {Invoice(InvoiceParty("Acme", "1-9", ""), EmptyParty, l,
             InvoiceTotals(sub, iva, rate, total)) :
        l \in SeqsUpTo(Lines, MaxLines), sub \in Subtotals, iva \in IvaAmounts,
        rate \in IvaRates, total \in TotalAmounts}
    \cup ScenarioInvoices

InitValidator ==
    /\ pc = "validator_called"
    /\ invoice \in Invoices
    /\ validation = NoValidation
    /\ extractor = "mock"
    /\ normalizer = "none"
    /\ filename = ""
    /\ metrics = <<>>
    /\ calls = 0
    /\ metrics_before = <<>>
    /\ ocr_text = ""
    /\ extract_outcome = Raised("")
    /\ built_metrics = NoMetrics
    /\ llm_result = EmptyPayload
    /\ extraction_metrics = NoMetrics
    /\ error = ""
    /\ trace = <<>>
    /\ NormalizerIdle
    /\ FactoryIdle
    /\ SmartIdle
    /\ PollingIdle
    /\ SinkIdle
    /\ ConcurrentIdle
    /\ AgentIdle

ValidatorReturns ==
    /\ pc = "validator_called"
    /\ validation' = validate_invoice_numeric_consistency(invoice)
    /\ pc' = "validator_returned"
    /\ UNCHANGED <<extractor, normalizer, filename, ocr_text, extract_outcome,
                   built_metrics, llm_result, extraction_metrics, metrics,
                   invoice, error, trace, calls, metrics_before>>
    /\ UNCHANGED outside_pipeline

NextValidator == ValidatorReturns

SpecValidator == InitValidator /\ [][NextValidator]_vars

\* the pipeline, not in use
PipelineIdle ==
    /\ extractor = "mock"
    /\ normalizer = "none"
    /\ filename = ""
    /\ metrics = <<>>
    /\ calls = 0
    /\ metrics_before = <<>>
    /\ CallLocalsCleared

(***************************************************************************)
(* The normalizer service on its own: a RubroNormalizerService built       *)
(* without a nomenclator or with one loaded by from_csv, and               *)
(* normalize_lines applied to a sequence of descriptions.                  *)
(***************************************************************************)
CsvRows ==
    {[code |-> "R1", name |-> "Flete"], [code |-> "R2", name |-> "FLETE"],
     [code |-> "R3", name |-> "Servicio"], [code |-> "", name |-> "Fle"],
     [code |-> "R4", name |-> ""]}

InitNormalizer ==
    /\ pc = "normalize_lines_called"
    /\ with_nomenclator \in BOOLEAN
    /\ csv_rows \in IF with_nomenclator THEN SeqsUpTo(CsvRows, MaxRows)
                     ELSE {<<>>}
    /\ rubros \in SeqsUpTo(Descriptions, MaxLines)
    /\ results = <<>>
    /\ PipelineIdle
    /\ FactoryIdle
    /\ SmartIdle
    /\ PollingIdle
    /\ SinkIdle
    /\ ConcurrentIdle
    /\ AgentIdle

NormalizeLinesReturns ==
    /\ pc = "normalize_lines_called"
    /\ results' = normalize_lines(
                      IF with_nomenclator THEN Some(from_csv(csv_rows)) ELSE None,
                      rubros)
    /\ pc' = "normalize_lines_returned"
    /\ UNCHANGED <<csv_rows, with_nomenclator, rubros>>
    /\ UNCHANGED outside_normalizer

NextNormalizer == NormalizeLinesReturns

SpecNormalizer == InitNormalizer /\ [][NextNormalizer]_vars

(***************************************************************************)
(* The factory on its own: create_extractor and get_available_providers    *)
(* called in an environment.                                               *)
(***************************************************************************)
ProviderArgs ==
    {None} \cup {Some(n) : n \in {"", "llama", "openai", "ocr", "mock",
                                   "llm-cloud", "chat-completion", "OCR"}}

InitFactory ==
    /\ pc = "factory_idle"
    /\ environ \in Environments
    /\ provider \in ProviderArgs
    /\ auto_detect \in BOOLEAN
    /\ created = NotCreated
    /\ available = <<>>
    /\ recommended = ""
    /\ PipelineIdle
    /\ NormalizerIdle
    /\ SmartIdle
    /\ PollingIdle
    /\ SinkIdle
    /\ ConcurrentIdle
    /\ AgentIdle

CreateExtractor ==
    /\ pc = "factory_idle"
    /\ created' = create_extractor(provider, auto_detect, environ)
    /\ pc' = "create_extractor_returned"
    /\ UNCHANGED <<environ, provider, auto_detect, available, recommended>>
    /\ UNCHANGED outside_factory

GetAvailableProviders ==
    /\ pc \in {"factory_idle", "create_extractor_returned"}
    /\ available' = get_available_providers(environ)
    /\ pc' = "get_available_providers_returned"
    /\ UNCHANGED <<environ, provider, auto_detect, created, recommended>>
    /\ UNCHANGED outside_factory

GetRecommendedProvider ==
    /\ pc \in {"factory_idle", "create_extractor_returned",
              "get_available_providers_returned"}
    /\ recommended' = get_recommended_provider(environ)
    /\ pc' = "get_recommended_provider_returned"
    /\ UNCHANGED <<environ, provider, auto_detect, created, available>>
    /\ UNCHANGED outside_factory

NextFactory ==
    \/ CreateExtractor
    \/ GetAvailableProviders
    \/ GetRecommendedProvider

SpecFactory == InitFactory /\ [][NextFactory]_vars

(***************************************************************************)
(* The fallback wrapper on its own.  SmartInvoiceExtractor(provider) takes *)
(* its primary from create_extractor(provider) and its fallback from       *)
(* _create_specific("ocr"); extract_with_fallback awaits the primary's     *)
(* extract_with_metrics and, if that raised, the fallback's.  attempts     *)
(* lists the attempts that were started.                                   *)
(***************************************************************************)
InitSmart ==
    /\ pc = "smart_idle"
    /\ environ \in Environments
    /\ provider \in ProviderArgs
    /\ auto_detect = TRUE
    /\ created = create_extractor(provider, auto_detect, environ)
    /\ ~created.raised
    /\ available = <<>>
    /\ recommended = ""
    /\ primary = created.extractor
    /\ smart_ocr_text \in OptionalTexts
    /\ attempts = <<>>
    /\ primary_outcome = NoReturn
    /\ fallback_outcome = NoReturn
    /\ smart_return = NoReturn
    /\ PipelineIdle
    /\ NormalizerIdle
    /\ PollingIdle
    /\ SinkIdle
    /\ ConcurrentIdle
    /\ AgentIdle

\* extract_with_fallback is called and awaits the primary
CallExtractWithFallback ==
    /\ pc = "smart_idle"
    /\ attempts' = Append(attempts, "primary")
    /\ pc' = "primary_in_flight"
    /\ UNCHANGED <<primary, smart_ocr_text, primary_outcome, fallback_outcome,
                   smart_return>>
    /\ UNCHANGED outside_smart

\* mutant: the fallback is started whatever the primary did
PrimaryReturns_always_falling_back ==
    /\ pc = "primary_in_flight"
    /\ \E outcome \in extract(primary, smart_ocr_text) :
          primary_outcome' = extract_with_metrics(primary, outcome)
    /\ attempts' = Append(attempts, "fallback")
    /\ pc' = "fallback_in_flight"
    /\ UNCHANGED <<primary, smart_ocr_text, fallback_outcome, smart_return>>
    /\ UNCHANGED outside_smart

\* the primary's extract_with_metrics comes back: its value is returned, or
\* its exception is caught and the fallback is awaited
PrimaryReturns ==
    /\ pc = "primary_in_flight"
    /\ \E outcome \in extract(primary, smart_ocr_text) :
          LET r == extract_with_metrics(primary, outcome)
          IN  /\ primary_outcome' = r
              /\ IF r.raised
                 THEN /\ attempts' = Append(attempts, "fallback")
                      /\ pc' = "fallback_in_flight"
                      /\ UNCHANGED smart_return
                 ELSE /\ smart_return' = r
                      /\ pc' = "smart_returned"
                      /\ UNCHANGED attempts
    /\ UNCHANGED <<primary, smart_ocr_text, fallback_outcome>>
    /\ UNCHANGED outside_smart

\* the fallback's extract_with_metrics comes back: its value is returned, or
\* the aggregate error is raised
FallbackReturns ==
    /\ pc = "fallback_in_flight"
    /\ \E outcome \in extract("ocr", smart_ocr_text) :
          LET r == extract_with_metrics("ocr", outcome)
          IN  /\ fallback_outcome' = r
              /\ IF r.raised
                 THEN /\ smart_return' =
                             all_extractors_failed(primary_outcome.error, r.error)
                      /\ pc' = "smart_raised"
                 ELSE /\ smart_return' = r
                      /\ pc' = "smart_returned"
    /\ UNCHANGED <<primary, smart_ocr_text, attempts, primary_outcome>>
    /\ UNCHANGED outside_smart

NextSmart ==
    \/ CallExtractWithFallback
    \/ PrimaryReturns
    \/ FallbackReturns

SpecSmart == InitSmart /\ [][NextSmart]_vars

(***************************************************************************)
(* The polling loop of LlamaInvoiceExtractor.extract                       *)
(* (services/extractors/llama_extractor.py), from the moment the job was   *)
(* started.  waited counts the seconds slept, polls the status requests    *)
(* issued, job_status is the status last read, poll_outcome how extract    *)
(* ended.  Every request has a timeout and asyncio.sleep returns, so a     *)
(* step that can be taken is taken.                                        *)
(***************************************************************************)
max_wait == 180

interval == 3

Completed == {"completed", "SUCCESS"}

Failed == {"failed", "cancelled"}

\* statuses that are neither: the loop goes on ("" is a reply without status)
Pending == {"PENDING", "running", ""}

InitPolling ==
    /\ pc = "poll"
    /\ waited = 0
    /\ polls = 0
    /\ job_status = ""
    /\ poll_outcome = ""
    /\ result_fetches = 0
    /\ job_result = NoBody
    /\ poll_return = NoBody
    /\ PipelineIdle
    /\ NormalizerIdle
    /\ FactoryIdle
    /\ SmartIdle
    /\ SinkIdle
    /\ ConcurrentIdle
    /\ AgentIdle

\* mutant: the loop test lets a poll through when the deadline is reached
PollStatus_at_deadline ==
    /\ pc = "poll"
    /\ waited <= max_wait
    /\ polls' = polls + 1
    /\ \/ \E st \in Pending : job_status' = st /\ pc' = "sleep"
                                  /\ UNCHANGED poll_outcome
       \/ \E st \in Completed : job_status' = st /\ pc' = "fetch_result"
                                    /\ UNCHANGED poll_outcome
       \/ \E st \in Failed : /\ job_status' = st
                               /\ poll_outcome' = "job_failed"
                               /\ pc' = "poll_done"
       \/ /\ poll_outcome' = "http_error"
          /\ pc' = "poll_done"
          /\ UNCHANGED job_status
    /\ UNCHANGED <<waited, result_fetches, job_result, poll_return>>
    /\ UNCHANGED outside_polling

\* one pass of the loop body up to its next await: the status request is
\* answered or raises
PollStatus ==
    /\ pc = "poll"
    /\ waited < max_wait
    /\ polls' = polls + 1
    /\ \/ \E st \in Pending : job_status' = st /\ pc' = "sleep"
                                  /\ UNCHANGED poll_outcome
       \/ \E st \in Completed : job_status' = st /\ pc' = "fetch_result"
                                    /\ UNCHANGED poll_outcome
       \/ \E st \in Failed : /\ job_status' = st
                               /\ poll_outcome' = "job_failed"
                               /\ pc' = "poll_done"
       \/ /\ poll_outcome' = "http_error"
          /\ pc' = "poll_done"
          /\ UNCHANGED job_status
    /\ UNCHANGED <<waited, result_fetches, job_result, poll_return>>
    /\ UNCHANGED outside_polling

\* the result request of a completed job is answered, and the body is
\* returned (a list of one element unwrapped), or it raises
FetchResult ==
    /\ pc = "fetch_result"
    /\ result_fetches' = result_fetches + 1
    /\ \/ \E body \in ResultBodies :
             /\ job_result' = body
             /\ poll_return' = unwrap(body)
             /\ poll_outcome' = "returned"
       \/ /\ poll_outcome' = "http_error"
          /\ UNCHANGED <<job_result, poll_return>>
    /\ pc' = "poll_done"
    /\ UNCHANGED <<waited, polls, job_status>>
    /\ UNCHANGED outside_polling

\* await asyncio.sleep(interval); waited += interval
Sleep ==
    /\ pc = "sleep"
    /\ waited' = waited + interval
    /\ pc' = "poll"
    /\ UNCHANGED <<polls, job_status, poll_outcome, result_fetches, job_result,
                   poll_return>>
    /\ UNCHANGED outside_polling

\* the loop test fails: raise RuntimeError("Extraction job timed out ...")
TimeOut ==
    /\ pc = "poll"
    /\ ~(waited < max_wait)
    /\ poll_outcome' = "timed_out"
    /\ pc' = "poll_done"
    /\ UNCHANGED <<waited, polls, job_status, result_fetches, job_result,
                   poll_return>>
    /\ UNCHANGED outside_polling

NextPolling ==
    \/ PollStatus
    \/ FetchResult
    \/ Sleep
    \/ TimeOut

SpecPolling == InitPolling /\ [][NextPolling]_vars /\ WF_vars(NextPolling)

(***************************************************************************)
(* The metrics collector on its own: record_extraction and                 *)
(* get_recent_extractions called on a collector that started empty.        *)
(***************************************************************************)
MetricsSamples ==
    {ExtractionMetrics("mock", TRUE, Some(100), None),
     ExtractionMetrics("openai", TRUE, Some(80), None),
     ExtractionMetrics("tesseract_ocr", FALSE, None, Some("boom"))}

Limits == 0..(MaxRecords + 1)

InitSink ==
    /\ pc = "sink_idle"
    /\ PipelineIdle
    /\ NormalizerIdle
    /\ FactoryIdle
    /\ SmartIdle
    /\ PollingIdle
    /\ SinkIdle
    /\ ConcurrentIdle
    /\ AgentIdle

RecordExtraction ==
    /\ pc \in {"sink_idle", "record_extraction_returned",
              "get_recent_extractions_returned"}
    /\ Len(metrics) < MaxRecords
    /\ \E m \in MetricsSamples, name \in Filenames \cup {""} :
          /\ metrics' = record_extraction(metrics, m, name)
          /\ recorded' = Append(recorded, <<m, name>>)
    /\ pc' = "record_extraction_returned"
    /\ UNCHANGED <<recent_limit, recent>>
    /\ UNCHANGED <<pipeline_but_sink, normalizer_vars, factory_vars, smart_vars,
                   polling_vars, concurrent_vars, agent_vars>>

GetRecentExtractions ==
    /\ pc \in {"sink_idle", "record_extraction_returned",
              "get_recent_extractions_returned"}
    /\ \E limit \in Limits :
          /\ recent_limit' = limit
          /\ recent' = get_recent_extractions(metrics, limit)
    /\ pc' = "get_recent_extractions_returned"
    /\ UNCHANGED <<metrics, recorded>>
    /\ UNCHANGED <<pipeline_but_sink, normalizer_vars, factory_vars, smart_vars,
                   polling_vars, concurrent_vars, agent_vars>>

NextSink ==
    \/ RecordExtraction
    \/ GetRecentExtractions

SpecSink == InitSink /\ [][NextSink]_vars

(***************************************************************************)
(* LlamaInvoiceExtractor._ensure_agent                                     *)
(* (services/extractors/llama_extractor.py) called by extract calls that   *)
(* run in one event loop and are suspended at their requests.  Every       *)
(* request gets a new processor and with it a new extractor                *)
(* (api/routes.py), and one extractor can serve several calls.  agents     *)
(* lists the ids of the agents named invoice_parser the service holds: 0   *)
(* is one that was there before, a created one gets the next number.       *)
(* Whether the service accepts a second agent of the same name is not      *)
(* decided by this code: it may create it or refuse the request.           *)
(***************************************************************************)
ExtractorInstances == {"x1", "x2"}

EnsureCall(instance, position, cached, requests, listed) ==
    [extractor |-> instance, pc |-> position, cached_at_start |-> cached,
     requests |-> requests, listed |-> listed]

InitAgent ==
    /\ pc = "agent"
    /\ ensure_calls = <<>>
    /\ agent_id = [x \in ExtractorInstances |-> None]
    /\ agents \in {<<>>, <<0>>}
    /\ list_requests = 0
    /\ create_requests = 0
    /\ PipelineIdle
    /\ NormalizerIdle
    /\ FactoryIdle
    /\ SmartIdle
    /\ PollingIdle
    /\ SinkIdle
    /\ ConcurrentIdle

\* extract is called on an extractor: _ensure_agent returns the cached id,
\* or sends the list request and is suspended
CallEnsureAgent ==
    /\ Len(ensure_calls) < MaxExtracts
    /\ \E x \in ExtractorInstances :
          IF agent_id[x] # None
          THEN /\ ensure_calls' =
                      Append(ensure_calls, EnsureCall(x, "ensured", TRUE, 0, <<>>))
               /\ UNCHANGED list_requests
          ELSE /\ ensure_calls' =
                      Append(ensure_calls, EnsureCall(x, "listing", FALSE, 1, <<>>))
               /\ list_requests' = list_requests + 1
    /\ UNCHANGED <<pc, agent_id, agents, create_requests>>
    /\ UNCHANGED <<pipeline_vars, normalizer_vars, factory_vars, smart_vars,
                   polling_vars, sink_vars, concurrent_vars>>

\* the list request of call t is answered: the first agent named
\* invoice_parser is cached and returned, or the create request is sent;
\* or the list request raises
ListReturns(t) ==
    /\ ensure_calls[t].pc = "listing"
    /\ \/ IF agents # <<>>
          THEN /\ agent_id' =
                      [agent_id EXCEPT ![ensure_calls[t].extractor] = Some(agents[1])]
               /\ ensure_calls' =
                      [ensure_calls EXCEPT ![t].pc = "ensured", ![t].listed = agents]
               /\ UNCHANGED create_requests
          ELSE /\ ensure_calls' =
                      [ensure_calls EXCEPT ![t].pc = "creating",
                                           ![t].listed = agents,
                                           ![t].requests = @ + 1]
               /\ create_requests' = create_requests + 1
               /\ UNCHANGED agent_id
       \/ /\ ensure_calls' = [ensure_calls EXCEPT ![t].pc = "raised"]
          /\ UNCHANGED <<agent_id, create_requests>>
    /\ UNCHANGED <<pc, agents, list_requests>>
    /\ UNCHANGED <<pipeline_vars, normalizer_vars, factory_vars, smart_vars,
                   polling_vars, sink_vars, concurrent_vars>>

\* the create request of call t is answered: the service has created an
\* agent, whose id is cached and returned; or the request raises
CreateReturns(t) ==
    /\ ensure_calls[t].pc = "creating"
    /\ \/ LET id == Len(agents) + 1
          IN  /\ agents' = Append(agents, id)
              /\ agent_id' = [agent_id EXCEPT ![ensure_calls[t].extractor] = Some(id)]
              /\ ensure_calls' = [ensure_calls EXCEPT ![t].pc = "ensured"]
       \/ /\ ensure_calls' = [ensure_calls EXCEPT ![t].pc = "raised"]
          /\ UNCHANGED <<agent_id, agents>>
    /\ UNCHANGED <<pc, list_requests, create_requests>>
    /\ UNCHANGED <<pipeline_vars, normalizer_vars, factory_vars, smart_vars,
                   polling_vars, sink_vars, concurrent_vars>>

NextAgent ==
    \/ CallEnsureAgent
    \/ \E t \in 1..Len(ensure_calls) : ListReturns(t)
    \/ \E t \in 1..Len(ensure_calls) : CreateReturns(t)

SpecAgent == InitAgent /\ [][NextAgent]_vars

(***************************************************************************)
(* Several calls of process_invoice_file (services/orchestrator.py), each  *)
(* on the processor of its own request, running as coroutines of one event *)
(* loop with the module-level metrics_collector.  A coroutine gives way     *)
(* only at an await: at the OCR call and at extract_with_metrics.  From    *)
(* the return of extract_with_metrics to the return of the call            *)
(* (record_extraction, mapping, normalization, validation) there is no     *)
(* await, so that stretch is one step.  finished lists the pipelines in    *)
(* the order in which their extract_with_metrics returned a result.        *)
(***************************************************************************)
PipelineFilenames == <<"a.pdf", "b.jpg", "c.png">>

Pipeline(extractor_, filename_, position, text, extracted) ==
    [extractor |-> extractor_, filename |-> filename_, pc |-> position,
     ocr_text |-> text, extracted |-> extracted]

InitConcurrent ==
    /\ pc = "event_loop"
    /\ \E chosen \in [1..MaxPipelines -> Extractors] :
          pipelines = [i \in 1..MaxPipelines |->
                          Pipeline(chosen[i], PipelineFilenames[i], "ocr", "",
                                   FALSE)]
    /\ finished = <<>>
    /\ PipelineIdle
    /\ NormalizerIdle
    /\ FactoryIdle
    /\ SmartIdle
    /\ PollingIdle
    /\ SinkIdle
    /\ AgentIdle

\* the OCR call of pipeline i returns its text
PipelineOcrReturns(i) ==
    /\ pipelines[i].pc = "ocr"
    /\ \E text \in OcrTexts :
          pipelines' = [pipelines EXCEPT ![i].pc = "extract",
                                         ![i].ocr_text = text]
    /\ UNCHANGED <<pc, metrics, finished>>
    /\ UNCHANGED <<pipeline_but_sink, normalizer_vars, factory_vars, smart_vars,
                   polling_vars, sink_vars, agent_vars>>

\* the OCR call of pipeline i raises and the call is over
PipelineOcrRaises(i) ==
    /\ pipelines[i].pc = "ocr"
    /\ pipelines' = [pipelines EXCEPT ![i].pc = "raised"]
    /\ UNCHANGED <<pc, metrics, finished>>
    /\ UNCHANGED <<pipeline_but_sink, normalizer_vars, factory_vars, smart_vars,
                   polling_vars, sink_vars, agent_vars>>

\* what extract_with_metrics can come back with, for each extractor and OCR
\* text: whether it raised, the metrics of the call, and whether the result
\* maps to an invoice
extract_returns ==
    { [extractor |-> extractor_, ocr_text |-> text,
       returns |->
           { LET r == extract_with_metrics(extractor_, outcome)
             IN  [raised |-> r.raised, metrics |-> r.metrics,
                  mapped |-> ~r.raised /\ map_to_invoice(r.result).ok]
             : outcome \in extract(extractor_, Some(text)) }]
      : extractor_ \in Extractors, text \in OcrTexts }

\* extract_with_metrics of pipeline i comes back: an exception ends the
\* call; a result is recorded, mapped, normalized and validated, and the
\* call returns or the mapping raises
PipelineExtractReturns(i) ==
    /\ pipelines[i].pc = "extract"
    /\ \E call \in extract_returns : \E r \in call.returns :
          /\ call.extractor = pipelines[i].extractor
          /\ call.ocr_text = pipelines[i].ocr_text
          /\ IF r.raised
             THEN /\ pipelines' = [pipelines EXCEPT ![i].pc = "raised",
                                                     ![i].ocr_text = ""]
                  /\ UNCHANGED <<metrics, finished>>
             ELSE /\ metrics' = record_extraction(metrics, r.metrics,
                                                  pipelines[i].filename)
                  /\ finished' = Append(finished, i)
                  /\ pipelines' =
                         [pipelines EXCEPT
                             ![i].pc = IF r.mapped THEN "returned" ELSE "raised",
                             ![i].ocr_text = "",
                             ![i].extracted = TRUE]
    /\ UNCHANGED pc
    /\ UNCHANGED <<pipeline_but_sink, normalizer_vars, factory_vars, smart_vars,
                   polling_vars, sink_vars, agent_vars>>

NextConcurrent ==
    \/ \E i \in 1..MaxPipelines : PipelineOcrReturns(i)
    \/ \E i \in 1..MaxPipelines : PipelineOcrRaises(i)
    \/ \E i \in 1..MaxPipelines : PipelineExtractReturns(i)

SpecConcurrent == InitConcurrent /\ [][NextConcurrent]_vars

(***************************************************************************)
(* The four numeric relations as the specification states them, on exact   *)
(* decimals: the value is within 0.01 of the expected value.  The expected *)
(* value is read both ways, as the exact product and as the product        *)
(* rounded to 2 decimals.  Exact products are in units of 0.0001.          *)
(***************************************************************************)
within_exact(a, x) == Abs(a * 100 - x) <= Tolerance * 100

within_rounded(a, x) == Abs(a - round2(x)) <= Tolerance

\* the relation holds under both readings
relation_holds(a, x) == within_exact(a, x) /\ within_rounded(a, x)

\* the relation fails under both readings
relation_fails(a, x) == ~within_exact(a, x) /\ ~within_rounded(a, x)

line_product(line) == line.quantity * line.unit_price * 100

lines_sum(inv) == lines_subtotal(inv.line_items) * 100

iva_product(inv) == inv.totals.subtotal * inv.totals.iva_rate

total_sum(inv) == (inv.totals.subtotal + inv.totals.iva) * 100

AllRelationsHold(inv) ==
    /\ \A i \in 1..Len(inv.line_items) :
          relation_holds(inv.line_items[i].subtotal, line_product(inv.line_items[i]))
    /\ relation_holds(inv.totals.subtotal, lines_sum(inv))
    /\ relation_holds(inv.totals.iva, iva_product(inv))
    /\ relation_holds(inv.totals.total, total_sum(inv))

ValidatorDone == pc = "validator_returned"

\* C1: an invoice whose four relations all hold within 0.01 (under either
\* reading of the expected value) is reported valid, with no issue.
C1_ConsistentInvoiceIsValid ==
    (ValidatorDone /\ AllRelationsHold(invoice))
        => (validation.is_valid /\ validation.issues = <<>>)

(***************************************************************************)
(* The relation instances of an invoice: one per line, and the three of    *)
(* the totals.  Each has the code of its issue.                            *)
(***************************************************************************)
RelationSites(inv) == 1..(Len(inv.line_items) + 3)

site_code(inv, k) ==
    IF k <= Len(inv.line_items) THEN "line_subtotal_mismatch"
    ELSE IF k = Len(inv.line_items) + 1 THEN "subtotal_mismatch"
    ELSE IF k = Len(inv.line_items) + 2 THEN "iva_mismatch"
    ELSE "total_mismatch"

site_value(inv, k) ==
    IF k <= Len(inv.line_items) THEN inv.line_items[k].subtotal
    ELSE IF k = Len(inv.line_items) + 1 THEN inv.totals.subtotal
    ELSE IF k = Len(inv.line_items) + 2 THEN inv.totals.iva
    ELSE inv.totals.total

site_expected(inv, k) ==
    IF k <= Len(inv.line_items) THEN line_product(inv.line_items[k])
    ELSE IF k = Len(inv.line_items) + 1 THEN lines_sum(inv)
    ELSE IF k = Len(inv.line_items) + 2 THEN iva_product(inv)
    ELSE total_sum(inv)

site_field(inv, k) ==
    IF k <= Len(inv.line_items) THEN line_field(k - 1)
    ELSE IF k = Len(inv.line_items) + 1 THEN "totals.subtotal"
    ELSE IF k = Len(inv.line_items) + 2 THEN "totals.iva"
    ELSE "totals.total"

ViolatesExactly(inv, k) ==
    /\ relation_fails(site_value(inv, k), site_expected(inv, k))
    /\ \A j \in RelationSites(inv) \ {k} :
          relation_holds(site_value(inv, j), site_expected(inv, j))

\* C2: an invoice that violates exactly one relation and satisfies the others
\* gets exactly one issue, with the code of the violated relation.
C2_OneViolationOneIssue ==
    ValidatorDone =>
        \A k \in RelationSites(invoice) :
            ViolatesExactly(invoice, k) =>
                /\ Len(validation.issues) = 1
                /\ validation.issues[1].code = site_code(invoice, k)

\* the issues section 4.6 asks for: one per relation that is off by more
\* than 0.01 from its expected value rounded to 2 decimals, in check order
expected_issues(inv) ==
    LET F[n \in 0..(Len(inv.line_items) + 3)] ==
            IF n = 0 THEN <<>>
            ELSE IF within_rounded(site_value(inv, n), site_expected(inv, n))
                 THEN F[n - 1]
                 ELSE Append(F[n - 1],
                             InvoiceValidationIssue(site_code(inv, n),
                                                    site_field(inv, n)))
    IN  F[Len(inv.line_items) + 3]

\* C3: all four checks run on every invoice: the issue list is, in order, one
\* line_subtotal_mismatch per mismatching line (with its field path) and
\* subtotal_mismatch, iva_mismatch, total_mismatch exactly for the relations
\* that fail.
C3_EveryMismatchReported ==
    ValidatorDone => validation.issues = expected_issues(invoice)

\* C4: every validation result has is_valid = TRUE exactly when its issue
\* list is empty, from the validator alone and at the end of the pipeline.
C4_ValidIffNoIssues ==
    (pc \in {"validator_returned", "returned"})
        => (validation.is_valid <=> validation.issues = <<>>)

C4_witness ==
    /\ pc = "validator_returned"
    /\ ~validation.is_valid
    /\ Len(validation.issues) >= 2

(***************************************************************************)
(* The pipeline.                                                           *)
(***************************************************************************)
AllStages == <<"ocr", "extract", "record", "map", "normalize", "validate">>

IsPrefix(t, u) == Len(t) <= Len(u) /\ \A i \in 1..Len(t) : t[i] = u[i]

CallOver == pc \in {"returned", "raised"}

\* C5: the stages run in the order OCR, extraction, mapping, normalization,
\* validation, each at most once; a call returns only after all of them, with
\* extraction and mapping succeeded and no error; a call that fails stops at
\* OCR, extraction or mapping, never at a later stage, and has run nothing
\* after the failed stage.
C5_AllStagesOrFirstFailure ==
    /\ IsPrefix(trace, AllStages)
    /\ CallOver => (pc = "returned" <=> error = "")
    /\ pc = "returned" =>
          /\ trace = AllStages
          /\ extract_outcome.ok
          /\ map_to_invoice(llm_result).ok
    /\ pc = "raised" =>
          /\ trace \in {<<"ocr">>, <<"ocr", "extract">>,
                        <<"ocr", "extract", "record", "map">>}
          /\ validation = NoValidation

C5_witness ==
    /\ pc = "returned"
    /\ ~validation.is_valid
    /\ validation.issues # <<>>

ExtractionReached == Len(trace) >= 2

sink_record(m, name) == record_extraction(<<>>, m, name)[1]

\* C6: once a call that reached the extraction stage is over, exactly one
\* record has been appended to the sink for it, the one of the metrics the
\* wrapper built, whether the extractor succeeded or failed.
C6_MetricsRecordedRegardless ==
    (CallOver /\ ExtractionReached)
        => metrics = Append(metrics_before, sink_record(built_metrics, filename))

ExtractJustDone == Len(trace) = 2

\* C7: when the wrapped extract fails, failure metrics with its message are
\* built and the caller gets that failure; when it succeeds, the caller gets
\* the result unchanged together with success metrics naming the provider.
C7_WrapperNeverMasks ==
    ExtractJustDone =>
        IF extract_outcome.ok
        THEN /\ pc = "record"
             /\ llm_result = extract_outcome.result
             /\ extraction_metrics.success
             /\ extraction_metrics.provider = get_provider_name(extractor)
        ELSE /\ pc = "raised"
             /\ error = extract_outcome.error
             /\ ~built_metrics.success
             /\ built_metrics.error_message = Some(extract_outcome.error)

\* C8: when extract_text fails the call is over with that failure: the
\* extractor was not invoked, no metrics were built or recorded, and there
\* is no invoice and no validation result.
C8_OcrFailureAborts ==
    error = "OCR failed" =>
        /\ pc = "raised"
        /\ trace = <<"ocr">>
        /\ extract_outcome = Raised("")
        /\ built_metrics = NoMetrics
        /\ metrics = metrics_before
        /\ invoice = NoInvoice
        /\ validation = NoValidation

C8_witness ==
    /\ error = "OCR failed"
    /\ pc = "raised"
    /\ calls = 2
    /\ metrics # <<>>

MapDone == Len(trace) >= 4

\* C9: a payload with a data key whose data lacks seller or buyer is
\* rejected by the mapping stage with a mapping error.
C9_NestedWithoutPartyRejected ==
    (/\ MapDone
     /\ has(llm_result, "data")
     /\ ~(has(llm_result.data, "seller") /\ has(llm_result.data, "buyer")))
        => (pc = "raised" /\ error = "ValidationError")

Unrecognized(p) ==
    /\ p.json = "object"
    /\ ~is_nested_shape(p)
    /\ p.keys \cap FlatKeys = {}

\* C10: a payload that is neither the nested cloud shape nor has any of
\* provider, totals, line_items is rejected by the mapping stage.
C10_UnrecognizedRejected ==
    (MapDone /\ Unrecognized(llm_result)) => pc = "raised"

\* a flat-shape payload in which every field is present
AllFieldsPresent(p) ==
    /\ p.json = "object"
    /\ ~has(p, "data")
    /\ FlatKeys \subseteq p.keys
    /\ p.provider.keys = PartyKeys
    /\ p.totals.keys = TotalsKeys
    /\ \A i \in 1..Len(p.line_items) : p.line_items[i].keys = LineKeys

\* the Invoice and the payload agree field by field once cast(..) is applied
\* to the payload's numbers
SameScalars(inv, p, cast(_)) ==
    /\ inv.provider = InvoiceParty(p.provider.name, p.provider.rut,
                                   p.provider.address)
    /\ inv.totals = InvoiceTotals(cast(p.totals.subtotal), cast(p.totals.iva),
                                  cast(p.totals.iva_rate), cast(p.totals.total))
    /\ Len(inv.line_items) = Len(p.line_items)
    /\ \A i \in 1..Len(p.line_items) :
          /\ inv.line_items[i].rubro_raw = p.line_items[i].rubro_raw
          /\ inv.line_items[i].quantity = cast(p.line_items[i].quantity)
          /\ inv.line_items[i].unit_price = cast(p.line_items[i].unit_price)
          /\ inv.line_items[i].subtotal = cast(p.line_items[i].subtotal)

same_number(n) == n

\* C11 as stated: a flat payload with every field present is mapped to an
\* Invoice whose provider, totals and line items are identical to the
\* payload's values, lines in the same order and count.
C11_FlatRoundTripIdentical ==
    (MapDone /\ AllFieldsPresent(llm_result)) =>
        (pc # "raised" /\ SameScalars(invoice, llm_result, same_number))

\* C11 amended: a flat payload with every field present is mapped to an
\* Invoice whose strings are the payload's and whose numbers are float() of
\* the payload's, lines in the same order and count: the same number for
\* every double and every integer a double holds exactly, the nearest
\* double for an integer beyond 2**53.
C11_FlatRoundTripUpToFloat ==
    (MapDone /\ AllFieldsPresent(llm_result)) =>
        (pc # "raised" /\ SameScalars(invoice, llm_result, float))

C11_witness ==
    /\ MapDone
    /\ AllFieldsPresent(llm_result)
    /\ Len(llm_result.line_items) = 2
    /\ llm_result.line_items[1] # llm_result.line_items[2]
    /\ llm_result.totals.total = BigInt + 1
    /\ invoice.totals.total = BigInt
    /\ pc = "returned"

lacks_rubro_raw(p) ==
    /\ has(p, "line_items")
    /\ \E i \in 1..Len(p.line_items) : ~has(p.line_items[i], "rubro_raw")

\* C12: mapping a flat-shape payload in which some line item lacks rubro_raw
\* fails with a mapping error and produces no Invoice, whatever the other
\* lines and fields hold; the call is over without normalization or
\* validation.
C12_MissingRubroRawRejected ==
    (/\ MapDone
     /\ llm_result.json = "object"
     /\ ~has(llm_result, "data")
     /\ lacks_rubro_raw(llm_result))
        => /\ pc = "raised"
           /\ error = "ValidationError"
           /\ invoice = NoInvoice
           /\ validation = NoValidation
           /\ trace = <<"ocr", "extract", "record", "map">>

C12_witness ==
    /\ pc = "raised"
    /\ error = "ValidationError"
    /\ Len(llm_result.line_items) = 2
    /\ has(llm_result.line_items[1], "rubro_raw")
    /\ ~has(llm_result.line_items[2], "rubro_raw")
    /\ FlatKeys \subseteq llm_result.keys

NormalizeLinesDone == pc = "normalize_lines_returned"

\* C13: normalize_lines returns one result per description, in input order:
\* the k-th result (counting from 0) has line_index = k and original_rubro
\* equal to the k-th description, with or without a nomenclator.
C13_OrderAndLengthPreserved ==
    NormalizeLinesDone =>
        /\ Len(results) = Len(rubros)
        /\ \A k \in 1..Len(rubros) :
              /\ results[k].line_index = k - 1
              /\ results[k].original_rubro = rubros[k]

C13_witness ==
    /\ NormalizeLinesDone
    /\ Len(results) = 2
    /\ rubros[1] # rubros[2]
    /\ with_nomenclator
    /\ results[1].normalized_code = None
    /\ results[2].normalized_code # None

\* the entries of the nomenclator (the rows with a code and a name) whose
\* lowercased name is the lowercased description
matching_rows(rubro_raw) ==
    {i \in 1..Len(csv_rows) :
        /\ csv_rows[i].code # ""
        /\ csv_rows[i].name # ""
        /\ lower(csv_rows[i].name) = lower(rubro_raw)}

\* C14: a description gets the code and name of a nomenclator entry exactly
\* when its lowercased text equals that entry's lowercased name; every other
\* description, and every description when there is no nomenclator, gets
\* null code and null name.
C14_CaseInsensitiveExactMatch ==
    NormalizeLinesDone =>
        \A k \in 1..Len(rubros) :
            IF with_nomenclator /\ matching_rows(rubros[k]) # {}
            THEN \E i \in matching_rows(rubros[k]) :
                    /\ results[k].normalized_code = Some(csv_rows[i].code)
                    /\ results[k].normalized_name = Some(csv_rows[i].name)
            ELSE /\ results[k].normalized_code = None
                 /\ results[k].normalized_name = None

C14_witness ==
    /\ NormalizeLinesDone
    /\ with_nomenclator
    /\ rubros = <<"FLETE", "Flete urgente">>
    /\ csv_rows = <<[code |-> "R1", name |-> "Flete"],
                    [code |-> "", name |-> "Fle"]>>
    /\ results[1].normalized_code = Some("R1")
    /\ results[1].normalized_name = Some("Flete")
    /\ results[2].normalized_code = None

(***************************************************************************)
(* The factory.                                                            *)
(***************************************************************************)
CreateDone == created # NotCreated

provider_given == truthy(provider)

cloud_credentials == truthy(environ.LLAMA_API_KEY)

chat_credentials == truthy(environ.OPENAI_API_KEY)

\* a provider name selects the class the table gives it, whatever auto_detect
\* and the environment are, and a name outside the table is refused
SelectsFromTable(table) ==
    (CreateDone /\ provider_given) =>
        IF provider[1] \in DOMAIN table
        THEN /\ created.class = table[provider[1]]
             /\ ~created.raised => created.extractor = table[provider[1]]
             /\ provider[1] = "ocr" =>
                    (~created.raised /\ created.extractor = "ocr")
             /\ provider[1] = "mock" =>
                    /\ ~created.raised
                    /\ get_provider_name(created.extractor) = "mock"
        ELSE /\ created.raised
             /\ created.exception = "ValueError"

\* C18 as stated: the table is {ocr, llm-cloud, chat-completion, mock}.
C18_StatedTableSelects ==
    SelectsFromTable(("ocr" :> "ocr") @@ ("llm-cloud" :> "llama")
                        @@ ("chat-completion" :> "openai") @@ ("mock" :> "mock"))

\* C18 amended: with a non-empty provider name, create_extractor calls the
\* constructor the table {ocr, llama, openai, mock} gives that name,
\* whatever auto_detect and the environment are (ocr yields the OCR
\* extractor, mock an extractor named "mock"), and fails with ValueError
\* for any other name.
C18_CodeTableSelects ==
    SelectsFromTable(("ocr" :> "ocr") @@ ("llama" :> "llama")
                        @@ ("openai" :> "openai") @@ ("mock" :> "mock"))

C18_witness ==
    /\ CreateDone
    /\ provider = Some("ocr")
    /\ ~auto_detect
    /\ ~cloud_credentials
    /\ ~chat_credentials
    /\ created.extractor = "ocr"

\* C19: with no provider given and auto_detect true, the factory returns
\* the cloud extractor whenever the cloud credential is present, the chat
\* extractor when only the chat credential is present, the OCR extractor
\* when neither is; it never fails.
C19_AutoDetectOrder ==
    (CreateDone /\ ~provider_given /\ auto_detect) =>
        /\ ~created.raised
        /\ cloud_credentials => created.extractor = "llama"
        /\ (~cloud_credentials /\ chat_credentials) =>
               created.extractor = "openai"
        /\ (~cloud_credentials /\ ~chat_credentials) =>
               created.extractor = "ocr"

C19_witness ==
    /\ CreateDone
    /\ provider = None
    /\ auto_detect
    /\ cloud_credentials
    /\ chat_credentials
    /\ created.extractor = "llama"

ListDone == pc = "get_available_providers_returned"

\* C20: in every environment the list of available providers holds "ocr"
\* and "mock", "llama" exactly when the cloud credential is present,
\* "openai" exactly when the chat credential is present, nothing else and
\* nothing twice.
C20_AvailableProviders ==
    ListDone =>
        LET names == {available[i] : i \in 1..Len(available)}
        IN  /\ "ocr" \in names
            /\ "mock" \in names
            /\ "llama" \in names <=> cloud_credentials
            /\ "openai" \in names <=> chat_credentials
            /\ names \subseteq {"ocr", "mock", "llama", "openai"}
            /\ Cardinality(names) = Len(available)

C20_witness ==
    /\ ListDone
    /\ environ.LLAMA_API_KEY = Some("")
    /\ chat_credentials
    /\ available = <<"openai", "ocr", "mock">>

RecommendDone == pc = "get_recommended_provider_returned"

\* C21: the recommended provider is the cloud one when the cloud credential
\* is present, else the chat one when the chat credential is present, else
\* OCR; it is always in the list of available providers and names the
\* class auto-detection constructs in the same environment.
C21_RecommendedProvider ==
    RecommendDone =>
        LET available_list == get_available_providers(environ)
        IN  /\ cloud_credentials => recommended = "llama"
            /\ (~cloud_credentials /\ chat_credentials) =>
                   recommended = "openai"
            /\ (~cloud_credentials /\ ~chat_credentials) =>
                   recommended = "ocr"
            /\ \E j \in 1..Len(available_list) :
                   available_list[j] = recommended
            /\ ~auto_detect_provider(environ).raised
            /\ auto_detect_provider(environ).class = recommended
            /\ providers[recommended] = auto_detect_provider(environ).extractor

C21_witness ==
    /\ RecommendDone
    /\ ~cloud_credentials
    /\ chat_credentials
    /\ recommended = "openai"

(***************************************************************************)
(* The fallback wrapper.                                                   *)
(***************************************************************************)
SmartOver == pc \in {"smart_returned", "smart_raised"}

\* C15: extract_with_fallback returns what the primary attempt returned when
\* it succeeded; when it failed the fallback is attempted and what it
\* returned is returned; when that failed too the call fails with a new
\* error whose message holds the primary's and the fallback's messages.
C15_PrimaryThenFallbackThenAggregate ==
    SmartOver =>
        IF ~primary_outcome.raised
        THEN /\ pc = "smart_returned"
             /\ smart_return = primary_outcome
             /\ attempts = <<"primary">>
        ELSE /\ attempts = <<"primary", "fallback">>
             /\ IF ~fallback_outcome.raised
                THEN /\ pc = "smart_returned"
                     /\ smart_return = fallback_outcome
                     /\ smart_return.metrics.provider = "tesseract_ocr"
                ELSE /\ pc = "smart_raised"
                     /\ smart_return.raised
                     /\ smart_return.error =
                            "All extractors failed: Primary: "
                                \o primary_outcome.error \o ". Fallback: "
                                \o fallback_outcome.error
                     /\ smart_return.error # primary_outcome.error
                     /\ smart_return.error # fallback_outcome.error

C15_witness ==
    /\ pc = "smart_raised"
    /\ primary = "openai"
    /\ primary_outcome.error = "OpenAI extractor requires OCR text"
    /\ fallback_outcome.error = "OCR extractor requires OCR text"

\* C16: the fallback is started only once the primary attempt has come back
\* failed: never while the primary is in flight, never after a primary that
\* succeeded, and each of the two is attempted at most once per call.
C16_FallbackOnlyAfterPrimaryFailed ==
    /\ IsPrefix(attempts, <<"primary", "fallback">>)
    /\ pc = "primary_in_flight" =>
          (attempts = <<"primary">> /\ primary_outcome = NoReturn)
    /\ Len(attempts) = 2 =>
          (primary_outcome # NoReturn /\ primary_outcome.raised)
    /\ (SmartOver /\ ~primary_outcome.raised) =>
          (attempts = <<"primary">> /\ fallback_outcome = NoReturn)

C16_witness ==
    /\ pc = "smart_returned"
    /\ attempts = <<"primary", "fallback">>
    /\ primary = "llama"
    /\ primary_outcome.raised
    /\ ~fallback_outcome.raised

(***************************************************************************)
(* The polling loop.                                                       *)
(***************************************************************************)
PollingOn == pc \in {"poll", "sleep", "fetch_result", "poll_done"}

\* what holds at every moment of the loop: at most 60 polls, one 3-second
\* sleep between two polls, and a timeout only after the 60th poll found
\* the job still not terminal
PollsBounded ==
    PollingOn =>
        /\ polls <= 60
        /\ pc = "poll" => waited = 3 * polls
        /\ pc = "sleep" => waited = 3 * (polls - 1)
        /\ poll_outcome = "timed_out" =>
              /\ polls = 60
              /\ waited = 180
              /\ job_status \in Pending
        /\ (pc = "poll_done" /\ job_status \in Pending /\ polls = 60
                /\ poll_outcome # "http_error") =>
              poll_outcome = "timed_out"

\* C17: the polling loop always ends: with a job that never reaches a
\* terminal status, extract polls at most 60 times, 3 seconds apart, and
\* then fails with the timeout error.
C17_PollingTerminates ==
    /\ []PollsBounded
    /\ <>(pc = "poll_done")

C17_witness ==
    /\ pc = "poll_done"
    /\ poll_outcome = "timed_out"
    /\ polls = 60
    /\ waited = 180

(***************************************************************************)
(* Missing input.                                                          *)
(***************************************************************************)
PrimaryOver == pc \in {"fallback_in_flight", "smart_returned", "smart_raised"}

FallbackOver == pc \in {"smart_returned", "smart_raised"} /\ Len(attempts) = 2

\* what extract_with_metrics leaves when extract refused its input
RefusedInput(r, message) ==
    /\ r.raised
    /\ r.error = message
    /\ r.result = EmptyPayload
    /\ ~r.metrics.success

\* C22: given no text (None or ""), the OCR extractor and the chat
\* extractor fail with their input error and with nothing else: no payload
\* is returned and no failure of the upstream call can be seen; the
\* extract_with_metrics call ends with that exception.
C22_MissingTextRejected ==
    ~truthy(smart_ocr_text) =>
        /\ (PrimaryOver /\ primary = "ocr") =>
               RefusedInput(primary_outcome, "OCR extractor requires OCR text")
        /\ (PrimaryOver /\ primary = "openai") =>
               RefusedInput(primary_outcome,
                            "OpenAI extractor requires OCR text")
        /\ FallbackOver =>
               RefusedInput(fallback_outcome, "OCR extractor requires OCR text")

C22_witness ==
    /\ smart_ocr_text = None
    /\ primary = "openai"
    /\ FallbackOver
    /\ primary_outcome.error = "OpenAI extractor requires OCR text"
    /\ fallback_outcome.error = "OCR extractor requires OCR text"

(***************************************************************************)
(* The normalization stage.                                                *)
(***************************************************************************)
NormalizeDone == pc \in {"validate", "returned"}

\* the invoice as the mapping stage handed it to the normalization stage
mapped_invoice == map_to_invoice(llm_result).invoice

\* the code of the nomenclator row whose name equals the description up to
\* case, when the pipeline has a nomenclator with such a row
matched_code(rubro_raw) ==
    IF normalizer = "nomenclator" /\ lower(rubro_raw) = lower("Flete")
    THEN Some("R1")
    ELSE None

\* C23: the normalization stage changes nothing but rubro_code: a line
\* whose description matches the nomenclator gets the matched code, an
\* unmatched line keeps the rubro_code it had (null stays null) and the
\* stage raises nothing; rubro_raw, quantity, unit_price, subtotal, the
\* order and number of lines, the parties and the totals are as before,
\* and without a normalizer the whole invoice is as before.
C23_OnlyRubroCodeChanges ==
    NormalizeDone =>
        /\ error = ""
        /\ invoice.provider = mapped_invoice.provider
        /\ invoice.buyer = mapped_invoice.buyer
        /\ invoice.totals = mapped_invoice.totals
        /\ Len(invoice.line_items) = Len(mapped_invoice.line_items)
        /\ \A k \in 1..Len(invoice.line_items) :
              LET before == mapped_invoice.line_items[k]
                  after == invoice.line_items[k]
              IN  /\ after.rubro_raw = before.rubro_raw
                  /\ after.quantity = before.quantity
                  /\ after.unit_price = before.unit_price
                  /\ after.subtotal = before.subtotal
                  /\ matched_code(before.rubro_raw) # None =>
                         after.rubro_code = matched_code(before.rubro_raw)
                  /\ matched_code(before.rubro_raw) = None =>
                         after.rubro_code = before.rubro_code
                  /\ (matched_code(before.rubro_raw) = None
                         /\ before.rubro_code = None) =>
                         after.rubro_code = None
        /\ normalizer = "none" => invoice = mapped_invoice

C23_witness ==
    /\ NormalizeDone
    /\ normalizer = "nomenclator"
    /\ Len(invoice.line_items) = 2
    /\ invoice.line_items[1].rubro_raw = "FLETE"
    /\ invoice.line_items[1].rubro_code = Some("R1")
    /\ invoice.line_items[2].rubro_raw = "Servicio"
    /\ mapped_invoice.line_items[1].rubro_code = None

(***************************************************************************)
(* The polling loop and the terminal statuses.                             *)
(***************************************************************************)
\* after a failed or cancelled status extract has failed, with no result
\* request; the result is requested at most once, only for a completed job;
\* a completed job ends with its result, a list of one element unwrapped
StopsAtTerminalStatus ==
    PollingOn =>
        /\ job_status \in {"failed", "cancelled"} =>
              /\ pc = "poll_done"
              /\ poll_outcome = "job_failed"
              /\ result_fetches = 0
        /\ poll_outcome = "job_failed" => job_status \in {"failed", "cancelled"}
        /\ result_fetches <= 1
        /\ result_fetches = 1 =>
              (job_status \in {"completed", "SUCCESS"} /\ pc = "poll_done")
        /\ pc = "fetch_result" =>
              (job_status \in {"completed", "SUCCESS"} /\ result_fetches = 0)
        /\ (job_status \in {"completed", "SUCCESS"} /\ pc = "poll_done") =>
              /\ result_fetches = 1
              /\ poll_outcome \in {"returned", "http_error"}
        /\ poll_outcome = "returned" =>
              /\ job_status \in {"completed", "SUCCESS"}
              /\ job_result \in ResultBodies
              /\ IF job_result.json = "array" /\ Len(job_result.elements) = 1
                 THEN poll_return = JsonObject(job_result.elements[1])
                 ELSE poll_return = job_result

\* once a terminal status was read, no status request follows
NoPollAfterTerminal ==
    job_status \in {"failed", "cancelled", "completed", "SUCCESS"} =>
        polls' = polls

\* C24: the loop stops at the first terminal status: failed or cancelled
\* makes extract fail at once, with no further status request and no result
\* request; completed makes it request the result exactly once and return
\* it, a single-element list unwrapped; the result is never requested while
\* the job is not terminal.
C24_StopsAtFirstTerminalStatus ==
    /\ []StopsAtTerminalStatus
    /\ [][NoPollAfterTerminal]_vars

C24_witness ==
    /\ pc = "poll_done"
    /\ polls = 2
    /\ job_status = "completed"
    /\ result_fetches = 1
    /\ job_result = JsonArray(<<"r1">>)
    /\ poll_return = JsonObject("r1")

(***************************************************************************)
(* The metrics sink.                                                       *)
(***************************************************************************)
RecentDone == pc = "get_recent_extractions_returned"

\* C25: the stored records are the recorded ones in call order, and
\* get_recent_extractions(limit) gives the last min(limit, n) of the n
\* stored records in their order, never more than limit, for limit >= 0.
C25_AppendOnlyAndRecent ==
    /\ pc \in {"record_extraction_returned", "get_recent_extractions_returned"}
          => metrics = [k \in 1..Len(recorded) |->
                           sink_record(recorded[k][1], recorded[k][2])]
    /\ RecentDone =>
          LET n == Len(metrics)
              k == Min(recent_limit, n)
          IN  /\ recent = SubSeq(metrics, n - k + 1, n)
              /\ Len(recent) <= recent_limit

(***************************************************************************)
(* The nested cloud shape.                                                 *)
(***************************************************************************)
\* the mapping stage has just turned a nested payload into an invoice
NestedMapped == pc = "normalize" /\ is_nested_shape(llm_result)

NestedReturned ==
    /\ pc = "returned"
    /\ has(llm_result, "data")
    /\ has(llm_result.data, "seller")
    /\ has(llm_result.data, "buyer")

issue_codes == {validation.issues[k].code : k \in 1..Len(validation.issues)}

\* C27: a run on a nested payload whose financial_summary has a nonzero
\* sub_total or a nonzero iva_amount returns is_valid = false, with
\* subtotal_mismatch or iva_mismatch among the issues; such a payload comes
\* out valid only when sub_total, iva_amount and total_amount are all zero.
C27_NestedNonzeroIsInvalid ==
    NestedReturned =>
        LET summary == llm_result.data.financial_summary
        IN  /\ (summary.sub_total # 0 \/ summary.iva_amount # 0) =>
                  /\ ~validation.is_valid
                  /\ issue_codes \cap {"subtotal_mismatch", "iva_mismatch"} # {}
            /\ validation.is_valid =>
                  /\ summary.sub_total = 0
                  /\ summary.iva_amount = 0
                  /\ summary.total_amount = 0

C27_witness ==
    /\ NestedReturned
    /\ llm_result.data.financial_summary = SummaryDict(SummaryKeys, 3, 1, 4)
    /\ ~validation.is_valid
    /\ issue_codes = {"subtotal_mismatch", "iva_mismatch"}

(***************************************************************************)
(* The extraction agent.                                                   *)
(***************************************************************************)
agents_created == Cardinality({k \in 1..Len(agents) : agents[k] >= 1})

\* C28: whatever the interleaving of the extract calls, a create request
\* is sent only by a call whose listing held no agent named
\* invoice_parser, at most one agent is ever created, and an extract that
\* starts on an extractor with a cached agent id sends no list and no
\* create request.
C28_AgentProvisionedAtMostOnce ==
    pc = "agent" =>
        /\ \A t \in 1..Len(ensure_calls) :
              /\ ensure_calls[t].requests = 2 => ensure_calls[t].listed = <<>>
              /\ ensure_calls[t].cached_at_start => ensure_calls[t].requests = 0
        /\ agents_created <= 1

(***************************************************************************)
(* Concurrent pipelines and the shared sink.                               *)
(***************************************************************************)
AllPipelinesOver ==
    /\ pc = "event_loop"
    /\ \A i \in 1..MaxPipelines : pipelines[i].pc \in {"returned", "raised"}

\* C29: when all the concurrent pipelines are over, the sink holds one
\* record for each pipeline whose extraction succeeded and no other, each
\* with that pipeline's provider and filename, in the order in which the
\* extractions came back; and at every moment it holds the records of the
\* extractions that have come back so far.
C29_NoRecordLostOrMixed ==
    pc = "event_loop" =>
        /\ Len(metrics) = Len(finished)
        /\ \A k \in 1..Len(finished) :
              /\ k <= Len(metrics)
              /\ metrics[k].filename = pipelines[finished[k]].filename
              /\ metrics[k].provider =
                     get_provider_name(pipelines[finished[k]].extractor)
              /\ metrics[k].success
        /\ \A j, k \in 1..Len(finished) : finished[j] = finished[k] => j = k
        /\ AllPipelinesOver =>
              {finished[k] : k \in 1..Len(finished)}
                  = {i \in 1..MaxPipelines : pipelines[i].extracted}

C29_witness ==
    /\ AllPipelinesOver
    /\ finished = <<2, 1>>
    /\ Len(metrics) = 2
    /\ metrics[1].filename = "b.jpg"
    /\ metrics[1].provider = "llama_cloud"
    /\ metrics[2].filename = "a.pdf"
    /\ metrics[2].provider = "openai"

=============================================================================
